---- MODULE Spec2Model ----
(***************************************************************************)
(* Model of the scan comparison engine (BeforeAfterUpload.tsx) and of the  *)
(* text signal extractor (ScanContext.tsx).                                *)
(*                                                                         *)
(* Numbers.  Confidences are held in hundredths (90 stands for 0.9).       *)
(* Fractions the code computes as doubles are held exactly as a numerator  *)
(* and a denominator.  NaN is a sentinel that every arithmetic operator    *)
(* below propagates the way JavaScript does.                               *)
(***************************************************************************)
EXTENDS Integers, Sequences, FiniteSets, TLC

VARIABLES
    \* the comparison as a function
    cmpBefore,      \* beforeFindings handed to the comparison
    cmpAfter,       \* afterFindings handed to the comparison
    cmpResult,      \* <<>> or <<ComparisonResult>>
    \* the BeforeAfterUpload component
    beforeScan,     \* useState<Scan | null>: <<>> or <<scan>>
    afterScan,
    loading,        \* useState(false)
    error,          \* useState<string | null>: "null" or the message
    comparisonResult,   \* useState<ComparisonResult | null>: <<>> or <<result>>
    completed,      \* number of onComparisonComplete calls made
    scanResults,    \* ScanContext's scanResults, as [scanId, result] entries
    pc,             \* where the running compareScans call stands
    capBefore,      \* beforeScan as the running compareScans closure sees it
    capAfter,
    analyzedBeforeScan, \* locals of compareScans
    analyzedAfterScan,
    compares,       \* compareScans calls started
    \* the extractor as a function
    extText,        \* the text handed to extractScanDetails
    details,        \* <<>> or <<what extractScanDetails returned>>
    \* the ScanProvider (ScanContext.tsx)
    scans,          \* useState<Scan[]>
    ctxScanResults, \* useState<ScanResult[]>
    reports,        \* useState<Report[]>
    ctxLoading,     \* useState(false)
    ctxError,       \* useState<string | null>
    calls,          \* analyzeScan calls waiting at their awaits
    timers,         \* setTimeout callbacks of analyzeScan not yet run
    \* the pages of the application and their handlers in flight
    page,           \* the route shown: "dashboard" or "compare"
    mounts,         \* BeforeAfterUpload instances mounted so far
    uploads,        \* uploadScan calls started
    uploading,      \* handleUpload and handleFileUpload calls waiting for uploadScan
    comparing,      \* compareScans calls not yet returned
    failures,       \* analyzeScan calls that have thrown at an await
    \* the image store (IndexedDB) of the ScanProvider
    images,         \* the keys of the object store 'images'
    dbQueue,        \* requests to the database, in the order they were made
    fetching        \* ids of the uploadScan calls that read their file

cmpVars == <<cmpBefore, cmpAfter, cmpResult>>
uiVars == <<beforeScan, afterScan, loading, error, comparisonResult, completed,
            scanResults, pc, capBefore, capAfter, analyzedBeforeScan,
            analyzedAfterScan, compares>>
extVars == <<extText, details>>
ctxVars == <<scans, ctxScanResults, reports, ctxLoading, ctxError, calls, timers>>
appVars == <<page, mounts, uploads, uploading, comparing, failures>>
imgVars == <<images, dbQueue, fetching>>
vars == <<cmpVars, uiVars, extVars, ctxVars, appVars, imgVars>>

(***************************************************************************)
(* Bounds of the model.                                                    *)
(***************************************************************************)
MaxFindings == 4        \* findings in before and after together
MaxCompares == 2        \* compareScans calls in one behaviour
MaxPersisted == 1       \* results found in localStorage for the two scans
MaxFragments == 3       \* pieces of text in an analysis text

(***************************************************************************)
(* Input domains.                                                          *)
(***************************************************************************)
SeverityLevels == {"normal", "low", "medium", "high", "critical"}

\* strings that are no own key of the severityLevels object literal:
\* "severe" is on no prototype either, "constructor" is inherited from
\* Object.prototype.
PlainUnknownSeverities == {"severe"}
InheritedKeys == {"constructor"}
SeverityStrings == SeverityLevels \cup PlainUnknownSeverities \cup InheritedKeys

Areas == {"", "lung", "heart"}
\* in hundredths; on these values the doubles of calculateChangeIntensity
\* round to the same integers as the exact fractions used here
Confidences == {60, 80, 90, 100}
Descriptions == {"opacity", "opacity reduced"}

SeqsUpTo(S, n) == UNION {[1..k -> S] : k \in 0..n}

MakeFinding(a, s, c, d) == [area |-> a, severity |-> s, confidence |-> c, description |-> d]

Abs(x) == IF x < 0 THEN -x ELSE x
Max(a, b) == IF a >= b THEN a ELSE b
Min(a, b) == IF a <= b THEN a ELSE b

NaN == -1000000

\* a - b on JavaScript numbers
NumSub(a, b) == IF a = NaN \/ b = NaN THEN NaN ELSE a - b

\* Math.abs
MathAbs(x) == IF x = NaN THEN NaN ELSE Abs(x)

\* Math.round(num / den), den > 0: the nearest integer, a half going up
MathRound(num, den) == (2 * num + den) \div (2 * den)

\* Math.min(x, 100) where x may be NaN
MathMin(x, y) == IF x = NaN \/ y = NaN THEN NaN ELSE Min(x, y)

(***************************************************************************)
(* severityLevels[s] ?? 0 in compareScans.  An own key gives its number, a *)
(* key found on Object.prototype gives a function (not nullish, so ?? does *)
(* not apply) and the subtraction that follows yields NaN; anything else   *)
(* is undefined and becomes 0.                                             *)
(***************************************************************************)
SeverityLevel(s) ==
    CASE s = "normal" -> 0
      [] s = "low" -> 1
      [] s = "medium" -> 2
      [] s = "high" -> 3
      [] s = "critical" -> 4
      [] s \in InheritedKeys -> NaN
      [] OTHER -> 0

\* the same table, declared again inside calculateChangeIntensity
IntensitySeverityLevel(s) ==
    CASE s = "normal" -> 0
      [] s = "low" -> 1
      [] s = "medium" -> 2
      [] s = "high" -> 3
      [] s = "critical" -> 4
      [] s \in InheritedKeys -> NaN
      [] OTHER -> 0

(***************************************************************************)
(* calculateChangeIntensity(before, after).                                *)
(*   severityChange    = |al - bl| / 4                                     *)
(*   confidenceChange  = |after.confidence - before.confidence|            *)
(*   descriptionChange = 0 or 0.5                                          *)
(*   intensity = (0.5 sev + 0.3 conf + 0.2 desc) * 100                     *)
(* In thousandths of the 0..1 scale and with confidences in hundredths:    *)
(*   intensity = (125 sevAbs + 3 confAbs + 100 [desc differs]) / 10        *)
(***************************************************************************)
IntensityWeightedSwapped(sevAbs, confAbs, descDiffers) ==
    75 * sevAbs + 5 * confAbs + (IF descDiffers THEN 100 ELSE 0)

IntensityWeighted(sevAbs, confAbs, descDiffers) ==
    125 * sevAbs + 3 * confAbs + (IF descDiffers THEN 100 ELSE 0)

calculateChangeIntensity(before, after) ==
    LET beforeSeverityLevel == IntensitySeverityLevel(before.severity)
        afterSeverityLevel == IntensitySeverityLevel(after.severity)
        sevAbs == MathAbs(NumSub(afterSeverityLevel, beforeSeverityLevel))
        confAbs == Abs(after.confidence - before.confidence)
        descDiffers == before.description # after.description
    IN  [intensity |->
            IF sevAbs = NaN THEN NaN
            ELSE MathMin(MathRound(IntensityWeighted(sevAbs, confAbs, descDiffers), 10), 100),
         factors |->
            [severityChange |->
                IF sevAbs = NaN THEN NaN ELSE MathRound(sevAbs * 100, 4),
             confidenceChange |-> MathRound(confAbs * 100, 100),
             descriptionChange |-> MathRound(IF descDiffers THEN 50 ELSE 0, 1)]]

(***************************************************************************)
(* The pure part of compareScans: from the two findings arrays to the      *)
(* ComparisonResult.                                                       *)
(***************************************************************************)
HasArea(findings, area) == \E j \in 1..Len(findings) : findings[j].area = area

\* Array.prototype.find: the first element with the area
FindByArea(findings, area) ==
    findings[CHOOSE j \in 1..Len(findings) :
                /\ findings[j].area = area
                /\ \A k \in 1..(j - 1) : findings[k].area # area]

ResolvedIssuesNoAreaGuard(beforeFindings, afterFindings) ==
    SelectSeq(beforeFindings, LAMBDA before : ~HasArea(afterFindings, before.area))

NewIssuesNotNegated(beforeFindings, afterFindings) ==
    SelectSeq(afterFindings,
              LAMBDA after : after.area # "" /\ HasArea(beforeFindings, after.area))

\* the filter callbacks return false for a finding without an area ("" is falsy)
ResolvedIssues(beforeFindings, afterFindings) ==
    SelectSeq(beforeFindings,
              LAMBDA before : before.area # "" /\ ~HasArea(afterFindings, before.area))

NewIssues(beforeFindings, afterFindings) ==
    SelectSeq(afterFindings,
              LAMBDA after : after.area # "" /\ ~HasArea(beforeFindings, after.area))

ChangeOfFlipped(before, after) ==
    LET severityChange == NumSub(SeverityLevel(after.severity), SeverityLevel(before.severity))
    IN  IF severityChange # NaN /\ severityChange > 0 THEN "improved"
        ELSE IF severityChange # NaN /\ severityChange < 0 THEN "worsened"
        ELSE "stable"

\* severityChange < 0 ? 'improved' : severityChange > 0 ? 'worsened' : 'stable'
\* (both comparisons are false on NaN)
ChangeOf(before, after) ==
    LET beforeSeverityLevel == SeverityLevel(before.severity)
        afterSeverityLevel == SeverityLevel(after.severity)
        severityChange == NumSub(afterSeverityLevel, beforeSeverityLevel)
    IN  IF severityChange # NaN /\ severityChange < 0 THEN "improved"
        ELSE IF severityChange # NaN /\ severityChange > 0 THEN "worsened"
        ELSE "stable"

ChangedIssue(before, afterFindings) ==
    LET after == FindByArea(afterFindings, before.area)
        changeAnalysis == calculateChangeIntensity(before, after)
    IN  [area |-> before.area,
         before |-> before,
         after |-> after,
         change |-> ChangeOf(before, after),
         changePercentage |-> changeAnalysis.intensity,
         changeFactors |-> changeAnalysis.factors]

ChangedIssues(beforeFindings, afterFindings) ==
    LET common == SelectSeq(beforeFindings,
                            LAMBDA before : before.area # "" /\ HasArea(afterFindings, before.area))
    IN  [i \in 1..Len(common) |-> ChangedIssue(common[i], afterFindings)]

CountChange(changedIssues, change) ==
    Cardinality({i \in 1..Len(changedIssues) : changedIssues[i].change = change})

WorsenedCountNoNew(changedIssues, newIssues) ==
    CountChange(changedIssues, "worsened")

WorsenedCount(changedIssues, newIssues) ==
    CountChange(changedIssues, "worsened") + Len(newIssues)

TotalIssues(beforeFindings) == Max(Len(beforeFindings), 1)

\* the order of JavaScript's > on strings (by UTF-16 code units) on the
\* severity strings: "constructor" < "critical" < "high" < "low" <
\* "medium" < "normal" < "severe"
StringRank(s) ==
    CASE s = "constructor" -> 0
      [] s = "critical" -> 1
      [] s = "high" -> 2
      [] s = "low" -> 3
      [] s = "medium" -> 4
      [] s = "normal" -> 5
      [] s = "severe" -> 6

\* before.severity === after.severity ? 'unchanged' :
\* before.severity > after.severity ? 'improved' : 'worsened'
ChangeDirection(before, after) ==
    IF before.severity = after.severity THEN "unchanged"
    ELSE IF StringRank(before.severity) > StringRank(after.severity) THEN "improved"
    ELSE "worsened"

\* the lines of "Progression in Existing Issues" of generateGeminiAnalysis,
\* one per before finding whose area some after finding has
GeminiProgression(beforeFindings, afterFindings) ==
    LET commonIssues == SelectSeq(beforeFindings,
                                  LAMBDA before : HasArea(afterFindings, before.area))
    IN  [i \in 1..Len(commonIssues) |->
            LET before == commonIssues[i]
                after == FindByArea(afterFindings, before.area)
            IN  [before |-> before,
                 after |-> after,
                 changeDirection |-> ChangeDirection(before, after)]]

CompareFindings(beforeFindings, afterFindings) ==
    LET resolvedIssues == ResolvedIssues(beforeFindings, afterFindings)
        newIssues == NewIssues(beforeFindings, afterFindings)
        changedIssues == ChangedIssues(beforeFindings, afterFindings)
        totalIssues == TotalIssues(beforeFindings)
        resolvedCount == Len(resolvedIssues)
        improvedCount == CountChange(changedIssues, "improved")
        worsenedCount == WorsenedCount(changedIssues, newIssues)
        \* improvementScore = scoreNum / totalIssues
        scoreNum == (resolvedCount + improvedCount) - worsenedCount
    IN  [overallChange |->
            IF scoreNum > 0 THEN "improved"
            ELSE IF scoreNum < 0 THEN "worsened"
            ELSE "stable",
         \* Math.abs(improvementScore * 100), as the fraction num / den
         changePercentage |-> [num |-> Abs(scoreNum * 100), den |-> totalIssues],
         resolvedIssues |-> resolvedIssues,
         newIssues |-> newIssues,
         changedIssues |-> changedIssues,
         geminiAnalysis |-> GeminiProgression(beforeFindings, afterFindings)]

(***************************************************************************)
(* The BeforeAfterUpload component: two upload slots and the Compare       *)
(* button.  A scan is [id, status, result]; result is <<>> (undefined) or  *)
(* <<r>> with r = [hasFindings, findings]: hasFindings is FALSE for a      *)
(* result object without a findings array (findings is then <<>>).         *)
(* analyzeScan and scanResults belong to ScanContext; here analyzeScan     *)
(* either fails (returns null) or returns a result the extractor can       *)
(* build, which it has appended to scanResults.                            *)
(***************************************************************************)
NoError == "null"
BothMustBeUploaded == "Both scans must be uploaded first"
FailedToAnalyze == "Failed to analyze one or both scans. Please try again."

BeforeId == "scan-before"
AfterId == "scan-after"

MakeResult(has, fs) == [hasFindings |-> has, findings |-> fs]
MakeScan(id, status, result) == [id |-> id, status |-> status, result |-> result]

\* what extractScanDetails can put into a result: no finding or one
AnalysisFindings ==
    {<<>>,
     <<MakeFinding("lung", "medium", 90, "opacity")>>,
     <<MakeFinding("lung", "low", 90, "opacity reduced")>>,
     <<MakeFinding("heart", "high", 90, "opacity")>>}

AnalysisResults == {MakeResult(TRUE, fs) : fs \in AnalysisFindings}

\* scanResults is read back from localStorage with JSON.parse, unvalidated
PersistedResults ==
    {MakeResult(FALSE, <<>>), MakeResult(TRUE, <<MakeFinding("lung", "high", 80, "opacity")>>)}

PersistedEntries ==
    {[scanId |-> id, result |-> r] : id \in {BeforeId, AfterId}, r \in PersistedResults}

UiFresh ==
    /\ beforeScan = <<>>
    /\ afterScan = <<>>
    /\ loading = FALSE
    /\ error = NoError
    /\ comparisonResult = <<>>
    /\ completed = 0
    /\ pc = "idle"
    /\ capBefore = <<>>
    /\ capAfter = <<>>
    /\ analyzedBeforeScan = <<>>
    /\ analyzedAfterScan = <<>>
    /\ compares = 0

UiInitial == UiFresh /\ scanResults = <<>>

\* handleFileUpload(file, isBeforeScan), uploadScan throwing: the catch only
\* logs
HandleFileUploadFails ==
    /\ pc = "idle"
    /\ beforeScan = <<>> \/ afterScan = <<>>
    /\ error' = NoError
    /\ loading' = FALSE
    /\ UNCHANGED <<beforeScan, afterScan, comparisonResult, completed, scanResults,
                   pc, capBefore, capAfter, analyzedBeforeScan, analyzedAfterScan,
                   compares, cmpVars, extVars, imgVars, ctxVars, appVars>>

\* handleFileUpload with analyzeScan returning null: the scan is kept
\* without a result
HandleFileUploadUnanalyzed(isBeforeScan) ==
    LET id == IF isBeforeScan THEN BeforeId ELSE AfterId
        scanWithResult == MakeScan(id, "uploaded", <<>>)
    IN  /\ pc = "idle"
        /\ IF isBeforeScan
           THEN beforeScan = <<>> /\ beforeScan' = <<scanWithResult>> /\ UNCHANGED afterScan
           ELSE afterScan = <<>> /\ afterScan' = <<scanWithResult>> /\ UNCHANGED beforeScan
        /\ error' = NoError
        /\ loading' = FALSE
        /\ UNCHANGED <<comparisonResult, completed, scanResults, pc, capBefore,
                       capAfter, analyzedBeforeScan, analyzedAfterScan, compares, cmpVars, extVars, imgVars, ctxVars, appVars>>

\* handleFileUpload with analyzeScan returning a result:
\* result: {...result, findings: result.findings || []}
HandleFileUploadAnalyzed(isBeforeScan, result) ==
    LET id == IF isBeforeScan THEN BeforeId ELSE AfterId
        scanWithResult == MakeScan(id, "uploaded", <<MakeResult(TRUE, result.findings)>>)
    IN  /\ pc = "idle"
        /\ IF isBeforeScan
           THEN beforeScan = <<>> /\ beforeScan' = <<scanWithResult>> /\ UNCHANGED afterScan
           ELSE afterScan = <<>> /\ afterScan' = <<scanWithResult>> /\ UNCHANGED beforeScan
        /\ scanResults' = Append(scanResults, [scanId |-> id, result |-> result])
        /\ error' = NoError
        /\ loading' = FALSE
        /\ UNCHANGED <<comparisonResult, completed, pc, capBefore, capAfter,
                       analyzedBeforeScan, analyzedAfterScan, compares, cmpVars, extVars, imgVars, ctxVars, appVars>>

\* compareScans up to its first await (the handler's own check of the two
\* scans is kept, although the button that calls it is disabled without them)
CompareStart ==
    /\ pc = "idle"
    /\ compares < MaxCompares
    /\ compares' = compares + 1
    /\ IF beforeScan = <<>> \/ afterScan = <<>>
       THEN /\ error' = BothMustBeUploaded
            /\ UNCHANGED <<loading, pc, capBefore, capAfter>>
       ELSE /\ loading' = TRUE
            /\ error' = NoError
            /\ capBefore' = beforeScan
            /\ capAfter' = afterScan
            /\ pc' = "ensureBefore"
    /\ UNCHANGED <<beforeScan, afterScan, comparisonResult, completed, scanResults,
                   analyzedBeforeScan, analyzedAfterScan, cmpVars, extVars, imgVars, ctxVars, appVars>>

HasResultForScan(results, id) == \E i \in 1..Len(results) : results[i].scanId = id

\* scanResults.find(result => result.scanId === scan.id)
ExistingResult(results, id) ==
    results[CHOOSE i \in 1..Len(results) :
                /\ results[i].scanId = id
                /\ \A k \in 1..(i - 1) : results[k].scanId # id].result

\* if (scan.result?.findings): an array, empty or not, is truthy
HasFindings(scan) == scan.result # <<>> /\ scan.result[1].hasFindings

(***************************************************************************)
(* ensureScanAnalyzed(scan) for the scan of one slot.  outcome is what the *)
(* analyzeScan call returns when the function gets as far as calling it:   *)
(* <<>> for null, <<r>> for a result.  The function yields the scan it     *)
(* returns, the new state of the slot, of loading and of scanResults.      *)
(***************************************************************************)
\* ensureScanAnalyzed without the finally of its analyzeScan call
EnsureScanAnalyzedNoFinally(scan, slot, outcome) ==
    IF HasFindings(scan)
    THEN [scan |-> scan, slot |-> slot, loading |-> loading, results |-> scanResults]
    ELSE IF HasResultForScan(scanResults, scan.id)
    THEN LET updatedScan ==
                MakeScan(scan.id, "analyzed", <<ExistingResult(scanResults, scan.id)>>)
         IN  [scan |-> updatedScan, slot |-> <<updatedScan>>, loading |-> loading,
              results |-> scanResults]
    ELSE IF scan.status = "uploaded"
    THEN IF outcome # <<>>
         THEN LET updatedScan == MakeScan(scan.id, "analyzed", outcome)
              IN  [scan |-> updatedScan, slot |-> <<updatedScan>>, loading |-> TRUE,
                   results |-> Append(scanResults,
                                      [scanId |-> scan.id, result |-> outcome[1]])]
         ELSE [scan |-> scan, slot |-> slot, loading |-> TRUE, results |-> scanResults]
    ELSE [scan |-> scan, slot |-> slot, loading |-> loading, results |-> scanResults]

EnsureScanAnalyzed(scan, slot, outcome) ==
    IF HasFindings(scan)
    THEN [scan |-> scan, slot |-> slot, loading |-> loading, results |-> scanResults]
    ELSE IF HasResultForScan(scanResults, scan.id)
    THEN LET updatedScan ==
                MakeScan(scan.id, "analyzed", <<ExistingResult(scanResults, scan.id)>>)
         IN  [scan |-> updatedScan, slot |-> <<updatedScan>>, loading |-> loading,
              results |-> scanResults]
    ELSE IF scan.status = "uploaded"
    THEN IF outcome # <<>>
         THEN LET updatedScan == MakeScan(scan.id, "analyzed", outcome)
              IN  [scan |-> updatedScan, slot |-> <<updatedScan>>, loading |-> FALSE,
                   results |-> Append(scanResults,
                                      [scanId |-> scan.id, result |-> outcome[1]])]
         ELSE [scan |-> scan, slot |-> slot, loading |-> FALSE, results |-> scanResults]
    ELSE [scan |-> scan, slot |-> slot, loading |-> loading, results |-> scanResults]

AnalyzeOutcomes == {<<>>} \cup {<<r>> : r \in AnalysisResults}

\* const analyzedBeforeScan = await ensureScanAnalyzed(beforeScan)
EnsureBefore(outcome) ==
    LET e == EnsureScanAnalyzed(capBefore[1], beforeScan, outcome)
    IN  /\ pc = "ensureBefore"
        /\ analyzedBeforeScan' = <<e.scan>>
        /\ beforeScan' = e.slot
        /\ loading' = e.loading
        /\ scanResults' = e.results
        /\ pc' = "ensureAfter"
        /\ UNCHANGED <<afterScan, error, comparisonResult, completed, capBefore,
                       capAfter, analyzedAfterScan, compares, cmpVars, extVars, imgVars, ctxVars, appVars>>

\* const analyzedAfterScan = await ensureScanAnalyzed(afterScan)
EnsureAfter(outcome) ==
    LET e == EnsureScanAnalyzed(capAfter[1], afterScan, outcome)
    IN  /\ pc = "ensureAfter"
        /\ analyzedAfterScan' = <<e.scan>>
        /\ afterScan' = e.slot
        /\ loading' = e.loading
        /\ scanResults' = e.results
        /\ pc' = "compare"
        /\ UNCHANGED <<beforeScan, error, comparisonResult, completed, capBefore,
                       capAfter, analyzedBeforeScan, compares, cmpVars, extVars, imgVars, ctxVars, appVars>>

MissingResultAnd(a, b) == a.result = <<>> /\ b.result = <<>>

\* if (!analyzedBeforeScan.result || !analyzedAfterScan.result)
MissingResult(a, b) == a.result = <<>> \/ b.result = <<>>

\* Array.isArray(scan.result?.findings) ? scan.result.findings : []
SafeFindings(scan) ==
    IF scan.result # <<>> /\ scan.result[1].hasFindings
    THEN scan.result[1].findings
    ELSE <<>>

\* beforeStatus !== 'reviewed' && beforeStatus !== 'completed' ? 'reviewed' : same
Reviewed(scan) ==
    IF scan.status # "reviewed" /\ scan.status # "completed"
    THEN MakeScan(scan.id, "reviewed", scan.result)
    ELSE scan

\* compareScans after both awaits, the analysis check failing: the return
\* leaves through the outer try, which has no finally
CompareFails ==
    /\ pc = "compare"
    /\ MissingResult(analyzedBeforeScan[1], analyzedAfterScan[1])
    /\ error' = FailedToAnalyze
    /\ pc' = "idle"
    /\ capBefore' = <<>>
    /\ capAfter' = <<>>
    /\ analyzedBeforeScan' = <<>>
    /\ analyzedAfterScan' = <<>>
    /\ UNCHANGED <<beforeScan, afterScan, loading, comparisonResult, completed,
                   scanResults, compares, cmpVars, extVars, imgVars, ctxVars, appVars>>

\* compareScans after both awaits, both results present
CompareSucceeds ==
    /\ pc = "compare"
    /\ ~MissingResult(analyzedBeforeScan[1], analyzedAfterScan[1])
    /\ comparisonResult' =
            <<CompareFindings(SafeFindings(analyzedBeforeScan[1]),
                              SafeFindings(analyzedAfterScan[1]))>>
    /\ completed' = completed + 1
    /\ beforeScan' = <<Reviewed(analyzedBeforeScan[1])>>
    /\ afterScan' = <<Reviewed(analyzedAfterScan[1])>>
    /\ loading' = FALSE
    /\ pc' = "idle"
    /\ capBefore' = <<>>
    /\ capAfter' = <<>>
    /\ analyzedBeforeScan' = <<>>
    /\ analyzedAfterScan' = <<>>
    /\ UNCHANGED <<error, scanResults, compares, cmpVars, extVars, imgVars, ctxVars, appVars>>

CmpUnused ==
    /\ cmpBefore = <<>>
    /\ cmpAfter = <<>>
    /\ cmpResult = <<>>

ExtUnused ==
    /\ extText = <<>>
    /\ details = <<>>

CtxUnused ==
    /\ scans = <<>>
    /\ ctxScanResults = <<>>
    /\ reports = <<>>
    /\ ctxLoading = FALSE
    /\ ctxError = NoError
    /\ calls = {}
    /\ timers = {}

AppUnused ==
    /\ page = "dashboard"
    /\ mounts = 0
    /\ uploads = 0
    /\ uploading = {}
    /\ comparing = {}
    /\ failures = 0

ImgUnused ==
    /\ images = {}
    /\ dbQueue = <<>>
    /\ fetching = {}

InitUI ==
    /\ CmpUnused
    /\ ExtUnused
    /\ CtxUnused
    /\ AppUnused
    /\ ImgUnused
    /\ UiFresh
    /\ scanResults \in SeqsUpTo(PersistedEntries, MaxPersisted)

\* compareScans is taken to run to its end before the next click: the button
\* is disabled while loading is set
NextUI ==
    \/ HandleFileUploadFails
    \/ \E isBeforeScan \in BOOLEAN : HandleFileUploadUnanalyzed(isBeforeScan)
    \/ \E isBeforeScan \in BOOLEAN, result \in AnalysisResults :
            HandleFileUploadAnalyzed(isBeforeScan, result)
    \/ CompareStart
    \/ \E outcome \in AnalyzeOutcomes : EnsureBefore(outcome)
    \/ \E outcome \in AnalyzeOutcomes : EnsureAfter(outcome)
    \/ CompareFails
    \/ CompareSucceeds

SpecUI == InitUI /\ [][NextUI]_vars

\* a slot without a scan, or a scan without a result or without a findings array
Lacks(slot) == slot = <<>> \/ slot[1].result = <<>> \/ ~slot[1].result[1].hasFindings

NothingProduced == comparisonResult' = comparisonResult /\ completed' = completed

\* C8 as stated: a compareScans call that found a scan without a result or
\* without a findings array ends with an error set and nothing produced.
C8_NoComparisonWithoutResults ==
    [][/\ (pc = "idle" /\ compares' # compares /\ (Lacks(beforeScan) \/ Lacks(afterScan)))
            => (pc' = "idle" => (error' # NoError /\ NothingProduced))
       /\ (pc = "compare" /\ (Lacks(capBefore) \/ Lacks(capAfter)))
            => (error' # NoError /\ NothingProduced)]_vars

\* C8 amended: a compareScans call ends with an error set and nothing
\* produced if a scan is missing or if, after ensureScanAnalyzed has tried to
\* obtain the missing results, a scan still has no result; with both results
\* present it produces the comparison, a result without a findings array
\* counting as one without findings.
C8_NoComparisonWithoutAnalyzedResults ==
    [][/\ (pc = "idle" /\ compares' # compares /\ (beforeScan = <<>> \/ afterScan = <<>>))
            => (pc' = "idle" /\ error' # NoError /\ NothingProduced)
       /\ (pc = "compare" /\ (analyzedBeforeScan[1].result = <<>>
                                \/ analyzedAfterScan[1].result = <<>>))
            => (error' # NoError /\ NothingProduced)
       /\ (pc = "compare" /\ analyzedBeforeScan[1].result # <<>>
                          /\ analyzedAfterScan[1].result # <<>>)
            => /\ completed' = completed + 1
               /\ comparisonResult' =
                    <<CompareFindings(
                        IF Lacks(analyzedBeforeScan) THEN <<>>
                        ELSE analyzedBeforeScan[1].result[1].findings,
                        IF Lacks(analyzedAfterScan) THEN <<>>
                        ELSE analyzedAfterScan[1].result[1].findings)>>]_vars

\* a compareScans call has ended on the failed-analysis error, nothing shown
C8_Witness ==
    /\ pc = "idle"
    /\ compares > 0
    /\ error = FailedToAnalyze
    /\ comparisonResult = <<>>
    /\ completed = 0
    /\ beforeScan # <<>> /\ beforeScan[1].result # <<>>
    /\ afterScan # <<>> /\ afterScan[1].result = <<>>

(***************************************************************************)
(* The comparison as a function of its inputs: the findings arrays are     *)
(* drawn either as two lists of typed findings that differ in area and     *)
(* severity, or as one finding on each side drawn from every area,         *)
(* severity string, confidence and description.                            *)
(***************************************************************************)
\* a finding without an area is dropped before its severity is read: one
\* such finding stands for all of them in the lists (AllFindings has them all)
ListFindings ==
    {MakeFinding(a, s, 90, "opacity") : a \in Areas \ {""}, s \in SeverityLevels}
        \cup {MakeFinding("", "medium", 90, "opacity")}

AllFindings ==
    {MakeFinding(a, s, c, d) :
        a \in Areas, s \in SeverityStrings, c \in Confidences, d \in Descriptions}

InitCompare ==
    /\ \/ /\ cmpBefore \in SeqsUpTo(ListFindings, MaxFindings)
          /\ cmpAfter \in SeqsUpTo(ListFindings, MaxFindings - Len(cmpBefore))
       \/ /\ cmpBefore \in [1..1 -> AllFindings]
          /\ cmpAfter \in [1..1 -> AllFindings]
    /\ cmpResult = <<>>
    /\ UiInitial
    /\ ExtUnused
    /\ CtxUnused
    /\ AppUnused
    /\ ImgUnused

Compare ==
    /\ cmpResult = <<>>
    /\ cmpResult' = <<CompareFindings(cmpBefore, cmpAfter)>>
    /\ UNCHANGED <<cmpBefore, cmpAfter, uiVars, extVars, imgVars, ctxVars, appVars>>

SpecCompare == InitCompare /\ [][Compare]_vars

(***************************************************************************)
(* Properties of the comparison.                                           *)
(***************************************************************************)
Compared == cmpResult # <<>>
Result == cmpResult[1]

InSeq(x, seq) == \E i \in 1..Len(seq) : seq[i] = x

\* the five-level severity scale
ScaleRank(s) ==
    CASE s = "normal" -> 0
      [] s = "low" -> 1
      [] s = "medium" -> 2
      [] s = "high" -> 3
      [] s = "critical" -> 4

SignName(x) == IF x < 0 THEN "improved" ELSE IF x > 0 THEN "worsened" ELSE "stable"

Typed(f) == f.severity \in SeverityLevels

\* C1: the overall changePercentage of every comparison lies in [0,100],
\* also when before is empty and after has several findings in new areas.
C1_ChangePercentageInRange ==
    Compared =>
        /\ 0 <= Result.changePercentage.num
        /\ Result.changePercentage.num <= 100 * Result.changePercentage.den

\* C2: comparing a findings list with itself gives stable, 0 percent, no
\* resolved and no new issues, and only stable changedIssues entries.
C2_Idempotence ==
    (Compared /\ cmpBefore = cmpAfter) =>
        /\ Result.overallChange = "stable"
        /\ Result.changePercentage.num = 0
        /\ Result.resolvedIssues = <<>>
        /\ Result.newIssues = <<>>
        /\ \A i \in 1..Len(Result.changedIssues) : Result.changedIssues[i].change = "stable"

ScoreNum(r) ==
    (Len(r.resolvedIssues) + CountChange(r.changedIssues, "improved"))
        - (CountChange(r.changedIssues, "worsened") + Len(r.newIssues))

\* C4: overallChange is the sign of ((|resolved| + improved) - (worsened +
\* |new|)) / max(|before|, 1); the divisor is never zero.
C4_VerdictIsSignOfScore ==
    Compared =>
        /\ Result.changePercentage.den = Max(Len(cmpBefore), 1)
        /\ Result.changePercentage.den >= 1
        /\ (Result.overallChange = "improved") <=> (ScoreNum(Result) > 0)
        /\ (Result.overallChange = "worsened") <=> (ScoreNum(Result) < 0)
        /\ (Result.overallChange = "stable") <=> (ScoreNum(Result) = 0)
        /\ Result.changePercentage.num = 100 * Abs(ScoreNum(Result))

\* an empty before list, a new issue outweighing nothing: worsened
C4_Witness ==
    /\ Compared
    /\ cmpBefore = <<>>
    /\ Len(Result.newIssues) = 2
    /\ Result.overallChange = "worsened"

C6_ChangeIsSignOfRankDelta ==
    Compared =>
        \A k \in 1..Len(Result.changedIssues) :
            LET e == Result.changedIssues[k]
            IN  (Typed(e.before) /\ Typed(e.after)) =>
                    e.change = SignName(ScaleRank(e.after.severity) - ScaleRank(e.before.severity))

\* a matched pair that improved although confidence and description differ
C6_Witness ==
    /\ Compared
    /\ Len(Result.changedIssues) = 1
    /\ Result.changedIssues[1].change = "improved"
    /\ Result.changedIssues[1].before.severity = "critical"
    /\ Result.changedIssues[1].after.severity = "high"
    /\ Result.changedIssues[1].before.confidence < Result.changedIssues[1].after.confidence
    /\ Result.changedIssues[1].before.description # Result.changedIssues[1].after.description

InPercentRange(x) == 0 <= x /\ x <= 100

AsNormal(s) == IF s \in SeverityLevels THEN s ELSE "normal"

\* C9: a severity string outside the five levels counts as normal (rank 0),
\* in the classification of a pair and in its change intensity.
C9_UnknownSeverityRanksZero ==
    Compared =>
        \A k \in 1..Len(Result.changedIssues) :
            LET e == Result.changedIssues[k]
                delta == ScaleRank(AsNormal(e.after.severity))
                            - ScaleRank(AsNormal(e.before.severity))
            IN  /\ e.change = SignName(delta)
                /\ e.changeFactors.severityChange = 25 * Abs(delta)

(***************************************************************************)
(* The text signal extractor (ScanContext.tsx).  A text is the sequence of *)
(* its characters; the String methods are spelled out on sequences, with   *)
(* JavaScript's 0-based indices.                                           *)
(***************************************************************************)
LowerChar(c) ==
    CASE c = "A" -> "a"
      [] c = "B" -> "b"
      [] c = "C" -> "c"
      [] c = "D" -> "d"
      [] c = "E" -> "e"
      [] c = "F" -> "f"
      [] c = "G" -> "g"
      [] c = "H" -> "h"
      [] c = "I" -> "i"
      [] c = "J" -> "j"
      [] c = "K" -> "k"
      [] c = "L" -> "l"
      [] c = "M" -> "m"
      [] c = "N" -> "n"
      [] c = "O" -> "o"
      [] c = "P" -> "p"
      [] c = "Q" -> "q"
      [] c = "R" -> "r"
      [] c = "S" -> "s"
      [] c = "T" -> "t"
      [] c = "U" -> "u"
      [] c = "V" -> "v"
      [] c = "W" -> "w"
      [] c = "X" -> "x"
      [] c = "Y" -> "y"
      [] c = "Z" -> "z"
      [] OTHER -> c

\* String.prototype.toLowerCase
ToLowerCase(text) == SubSeq([i \in 1..Len(text) |-> LowerChar(text[i])], 1, Len(text))

\* pat, which is never empty here, stands in text at position i
OccursAt(text, pat, i) ==
    /\ i + Len(pat) <= Len(text)
    /\ text[i + 1] = pat[1]
    /\ \A k \in 2..Len(pat) : text[i + k] = pat[k]

\* String.prototype.indexOf: the first position, or -1
IndexOf(text, pat) ==
    IF \E i \in 0..Len(text) : OccursAt(text, pat, i)
    THEN CHOOSE i \in 0..Len(text) :
            /\ OccursAt(text, pat, i)
            /\ \A j \in 0..(i - 1) : ~OccursAt(text, pat, j)
    ELSE -1

\* String.prototype.includes
Includes(text, pat) == \E i \in 0..Len(text) : OccursAt(text, pat, i)

\* String.prototype.slice(start, end), 0 <= start
Slice(text, start, end) == SubSeq(text, start + 1, Min(end, Len(text)))

IncludesAny(text, pats) == \E pat \in pats : Includes(text, pat)

bodyParts == <<
       [name |-> "brain", chars |-> <<"b", "r", "a", "i", "n">>],
       [name |-> "chest", chars |-> <<"c", "h", "e", "s", "t">>],
       [name |-> "lung", chars |-> <<"l", "u", "n", "g">>],
       [name |-> "heart", chars |-> <<"h", "e", "a", "r", "t">>],
       [name |-> "abdomen", chars |-> <<"a", "b", "d", "o", "m", "e", "n">>],
       [name |-> "liver", chars |-> <<"l", "i", "v", "e", "r">>],
       [name |-> "kidney", chars |-> <<"k", "i", "d", "n", "e", "y">>],
       [name |-> "spine", chars |-> <<"s", "p", "i", "n", "e">>],
       [name |-> "pelvis", chars |-> <<"p", "e", "l", "v", "i", "s">>],
       [name |-> "shoulder", chars |-> <<"s", "h", "o", "u", "l", "d", "e", "r">>],
       [name |-> "knee", chars |-> <<"k", "n", "e", "e">>],
       [name |-> "ankle", chars |-> <<"a", "n", "k", "l", "e">>],
       [name |-> "wrist", chars |-> <<"w", "r", "i", "s", "t">>],
       [name |-> "hand", chars |-> <<"h", "a", "n", "d">>],
       [name |-> "foot", chars |-> <<"f", "o", "o", "t">>]>>

abnormalityIndicators == <<
       <<"a", "b", "n", "o", "r", "m", "a", "l">>,
       <<"a", "b", "n", "o", "r", "m", "a", "l", "i", "t", "y">>,
       <<"l", "e", "s", "i", "o", "n">>,
       <<"m", "a", "s", "s">>,
       <<"t", "u", "m", "o", "r">>,
       <<"f", "r", "a", "c", "t", "u", "r", "e">>,
       <<"b", "r", "e", "a", "k">>,
       <<"i", "n", "f", "l", "a", "m", "m", "a", "t", "i", "o", "n">>,
       <<"i", "n", "f", "e", "c", "t", "i", "o", "n">>,
       <<"p", "n", "e", "u", "m", "o", "n", "i", "a">>,
       <<"c", "a", "n", "c", "e", "r">>,
       <<"g", "r", "o", "w", "t", "h">>,
       <<"c", "o", "n", "c", "e", "r", "n", "i", "n", "g">>,
       <<"s", "u", "s", "p", "i", "c", "i", "o", "u", "s">>,
       <<"p", "a", "t", "h", "o", "l", "o", "g", "y">>,
       <<"i", "r", "r", "e", "g", "u", "l", "a", "r">>,
       <<"d", "e", "f", "o", "r", "m", "i", "t", "y">>,
       <<"d", "e", "g", "e", "n", "e", "r", "a", "t", "i", "v", "e">>>>

findingsIndicators == <<
       <<"f", "i", "n", "d", "i", "n", "g">>,
       <<"a", "b", "n", "o", "r", "m", "a", "l", "i", "t", "y">>,
       <<"o", "b", "s", "e", "r", "v", "a", "t", "i", "o", "n">>,
       <<"i", "m", "p", "r", "e", "s", "s", "i", "o", "n">>>>

XrayTerms == {<<"x", "-", "r", "a", "y">>, <<"x", "r", "a", "y">>}
CtTerms == {<<"c", "t", " ", "s", "c", "a", "n">>,
            <<"c", "o", "m", "p", "u", "t", "e", "d", " ", "t", "o", "m", "o", "g", "r", "a", "p", "h", "y">>}
MriTerms == {<<"m", "r", "i">>,
             <<"m", "a", "g", "n", "e", "t", "i", "c", " ", "r", "e", "s", "o", "n", "a", "n", "c", "e">>}
UltrasoundTerms == {<<"u", "l", "t", "r", "a", "s", "o", "u", "n", "d">>,
                    <<"s", "o", "n", "o", "g", "r", "a", "m">>}

CriticalTerms == {<<"c", "r", "i", "t", "i", "c", "a", "l">>,
                  <<"s", "e", "v", "e", "r", "e">>,
                  <<"e", "m", "e", "r", "g", "e", "n", "t">>,
                  <<"e", "m", "e", "r", "g", "e", "n", "c", "y">>}
HighTerms == {<<"h", "i", "g", "h", " ", "s", "e", "v", "e", "r", "i", "t", "y">>,
              <<"s", "i", "g", "n", "i", "f", "i", "c", "a", "n", "t">>,
              <<"c", "o", "n", "c", "e", "r", "n", "i", "n", "g">>}
MediumTerms == {<<"m", "o", "d", "e", "r", "a", "t", "e">>,
                <<"m", "e", "d", "i", "u", "m", " ", "s", "e", "v", "e", "r", "i", "t", "y">>}
LowTerms == {<<"m", "i", "l", "d">>,
             <<"l", "o", "w", " ", "s", "e", "v", "e", "r", "i", "t", "y">>,
             <<"m", "i", "n", "i", "m", "a", "l">>}

ExcerptLength == 300
Ellipsis == <<".", ".", ".">>
PeriodSpace == <<".", " ">>

DetectScanTypeCtFirst(lower) ==
    IF IncludesAny(lower, CtTerms) THEN "ct"
    ELSE IF IncludesAny(lower, XrayTerms) THEN "xray"
    ELSE IF IncludesAny(lower, MriTerms) THEN "mri"
    ELSE IF IncludesAny(lower, UltrasoundTerms) THEN "ultrasound"
    ELSE "other"

\* the if / else-if chain over the scan type keywords
DetectScanType(lower) ==
    IF IncludesAny(lower, XrayTerms) THEN "xray"
    ELSE IF IncludesAny(lower, CtTerms) THEN "ct"
    ELSE IF IncludesAny(lower, MriTerms) THEN "mri"
    ELSE IF IncludesAny(lower, UltrasoundTerms) THEN "ultrasound"
    ELSE "other"

DetectBodyPartDefaultChest(lower) ==
    IF \E i \in 1..Len(bodyParts) : Includes(lower, bodyParts[i].chars)
    THEN bodyParts[CHOOSE i \in 1..Len(bodyParts) :
                        /\ Includes(lower, bodyParts[i].chars)
                        /\ \A j \in 1..(i - 1) : ~Includes(lower, bodyParts[j].chars)].name
    ELSE "chest"

\* for (const part of bodyParts) { if (includes) { bodyPart = part; break } }
DetectBodyPart(lower) ==
    IF \E i \in 1..Len(bodyParts) : Includes(lower, bodyParts[i].chars)
    THEN bodyParts[CHOOSE i \in 1..Len(bodyParts) :
                        /\ Includes(lower, bodyParts[i].chars)
                        /\ \A j \in 1..(i - 1) : ~Includes(lower, bodyParts[j].chars)].name
    ELSE "unknown"

DetectAbnormalitiesNegationAware(lower) ==
    /\ \E i \in 1..Len(abnormalityIndicators) : Includes(lower, abnormalityIndicators[i])
    /\ ~Includes(lower, <<"n", "o", " ">>)

\* for (const indicator of abnormalityIndicators) { if (includes) { true; break } }
DetectAbnormalities(lower) ==
    \E i \in 1..Len(abnormalityIndicators) : Includes(lower, abnormalityIndicators[i])

DetectSeverityLowestFirst(lower) ==
    IF IncludesAny(lower, LowTerms) THEN "low"
    ELSE IF IncludesAny(lower, MediumTerms) THEN "medium"
    ELSE IF IncludesAny(lower, HighTerms) THEN "high"
    ELSE IF IncludesAny(lower, CriticalTerms) THEN "critical"
    ELSE "normal"

\* the if / else-if chain over the severity keywords
DetectSeverity(lower) ==
    IF IncludesAny(lower, CriticalTerms) THEN "critical"
    ELSE IF IncludesAny(lower, HighTerms) THEN "high"
    ELSE IF IncludesAny(lower, MediumTerms) THEN "medium"
    ELSE IF IncludesAny(lower, LowTerms) THEN "low"
    ELSE "normal"

ExcerptFromPeriodExcluded(analysisText, index) ==
    LET excerpt == Slice(analysisText, index, index + ExcerptLength)
        endIndex == IndexOf(excerpt, PeriodSpace)
    IN  IF endIndex # -1 THEN Slice(excerpt, 0, endIndex) ELSE excerpt

\* the excerpt from index on: up to the first ". " inside the window, its
\* period included, or the whole window
ExcerptFrom(analysisText, index) ==
    LET excerpt == Slice(analysisText, index, index + ExcerptLength)
        endIndex == IndexOf(excerpt, PeriodSpace)
    IN  IF endIndex # -1 THEN Slice(excerpt, 0, endIndex + 1) ELSE excerpt

extractMainFinding(analysisText) ==
    LET lower == ToLowerCase(analysisText)
        hits == {i \in 1..Len(findingsIndicators) : Includes(lower, findingsIndicators[i])}
    IN  IF hits # {}
        THEN LET first == CHOOSE i \in hits : \A j \in hits : i <= j
             IN  ExcerptFrom(analysisText, IndexOf(lower, findingsIndicators[first]))
        ELSE Slice(analysisText, 0, Min(ExcerptLength, Len(analysisText))) \o Ellipsis

SynthesizedFindingsBySeverity(analysisText, abnormalitiesDetected, bodyPart, severity) ==
    IF severity # "normal"
    THEN <<[area |-> bodyPart, description |-> extractMainFinding(analysisText),
            confidence |-> 90, severity |-> severity]>>
    ELSE <<>>

\* if (result.abnormalitiesDetected) { result.findings.push({...}) }
SynthesizedFindings(analysisText, abnormalitiesDetected, bodyPart, severity) ==
    IF abnormalitiesDetected
    THEN <<[area |-> bodyPart, description |-> extractMainFinding(analysisText),
            confidence |-> 90, severity |-> severity]>>
    ELSE <<>>

\* the returned object, from what the four detections have set
ScanDetails(analysisText, scanType, bodyPart, abnormalitiesDetected, severity) ==
    [scanType |-> scanType,
     bodyPart |-> bodyPart,
     abnormalitiesDetected |-> abnormalitiesDetected,
     findings |-> SynthesizedFindings(analysisText, abnormalitiesDetected,
                                      bodyPart, severity),
     severity |-> severity]

\* the four detections, each on analysisText.toLowerCase()
DetectAll(analysisText, lower) ==
    ScanDetails(analysisText, DetectScanType(lower), DetectBodyPart(lower),
                DetectAbnormalities(lower), DetectSeverity(lower))

extractScanDetails(analysisText) == DetectAll(analysisText, ToLowerCase(analysisText))

(***************************************************************************)
(* The extractor as a function of its input: the analysis text is made of  *)
(* up to MaxFragments pieces of text.                                      *)
(***************************************************************************)
FragNoAbnormality ==
    <<"N", "o", " ", "a", "b", "n", "o", "r", "m", "a", "l", "i", "t", "y", " ", "w", "a", "s", " ", "d", "e", "t", "e", "c", "t", "e", "d", ",", " ",
      "p", "a", "t", "i", "e", "n", "t", " ", "i", "s", " ", "h", "e", "a", "l", "t", "h", "y">>
FragXray == <<"X", "-", "r", "a", "y", " ">>
FragCtScan == <<"C", "T", " ", "s", "c", "a", "n", " ">>
FragChest == <<"c", "h", "e", "s", "t", " ">>
FragLung == <<"l", "u", "n", "g", " ">>
FragMass == <<"m", "a", "s", "s", ".", " ">>
FragSevere == <<"s", "e", "v", "e", "r", "e", " ">>
FragMild == <<"m", "i", "l", "d", " ">>
FragFindings == <<"F", "i", "n", "d", "i", "n", "g", "s", ":", " ">>
FragNormal == <<"n", "o", "r", "m", "a", "l", " ">>
FragConcerning == <<"c", "o", "n", "c", "e", "r", "n", "i", "n", "g", " ">>
FragImpression == <<"I", "m", "p", "r", "e", "s", "s", "i", "o", "n", ":", " ">>
FragMri == <<"M", "R", "I", " ">>
FragUltrasound == <<"u", "l", "t", "r", "a", "s", "o", "u", "n", "d", " ">>
FragModerate == <<"m", "o", "d", "e", "r", "a", "t", "e", " ">>

Fragments ==
    {FragNoAbnormality, FragXray, FragCtScan, FragChest, FragLung, FragMass, FragSevere,
     FragMild, FragFindings, FragNormal, FragConcerning, FragImpression,
     FragMri, FragUltrasound, FragModerate}

RECURSIVE Concat(_)
Concat(pieces) == IF pieces = <<>> THEN <<>> ELSE Head(pieces) \o Concat(Tail(pieces))

AnalysisTexts == {Concat(pieces) : pieces \in SeqsUpTo(Fragments, MaxFragments)}

\* texts longer than the excerpt window: a first piece, a run of letters and
\* a sentence end that falls just inside, across or just outside the window
Filler(n) == [i \in 1..n |-> "z"]

FillerLengths == {ExcerptLength - 16, ExcerptLength - 15, ExcerptLength - 14, ExcerptLength}

LongTexts ==
    {first \o Filler(n) \o FragMass :
        first \in {FragFindings, FragConcerning}, n \in FillerLengths}

InitExtract ==
    /\ extText \in AnalysisTexts \cup LongTexts
    /\ details = <<>>
    /\ CmpUnused
    /\ UiInitial
    /\ CtxUnused
    /\ AppUnused
    /\ ImgUnused

Extract ==
    /\ details = <<>>
    /\ details' = <<extractScanDetails(extText)>>
    /\ UNCHANGED <<extText, cmpVars, uiVars, ctxVars, appVars, imgVars>>

SpecExtract == InitExtract /\ [][Extract]_vars

Extracted == details # <<>>
Details == details[1]

\* C10: the extractor returns no finding or one, and one exactly when
\* abnormalitiesDetected is true.
C10_FindingIffAbnormal ==
    Extracted =>
        /\ Len(Details.findings) \in {0, 1}
        /\ (Len(Details.findings) = 1) <=> Details.abnormalitiesDetected

\* a text with an indicator word gave the one finding, in the detected area
\* and with the detected severity
C10_Witness ==
    /\ Extracted
    /\ Details.abnormalitiesDetected
    /\ Len(Details.findings) = 1
    /\ Details.findings[1].area = "lung"
    /\ Details.findings[1].severity = "critical"
    /\ Details.findings[1].confidence = 90

\* a text with a severity word and no indicator word gave no finding
C10_WitnessNone ==
    /\ Extracted
    /\ ~Details.abnormalitiesDetected
    /\ Details.severity = "critical"
    /\ Details.findings = <<>>

\* the word w occurs in the lower-cased text
Occurs(lowered, w) ==
    \E i \in 1..(Len(lowered) - Len(w) + 1) :
        /\ lowered[i] = w[1]
        /\ \A k \in 2..Len(w) : lowered[i + k - 1] = w[k]

OccursAnyOf(lowered, words) == \E w \in words : Occurs(lowered, w)

IndicatorWords == {abnormalityIndicators[i] : i \in 1..Len(abnormalityIndicators)}

\* C11: abnormalitiesDetected is true exactly when an indicator word occurs
\* in the lower-cased text; a negation before the word changes nothing, so
\* "No abnormality was detected, patient is healthy" gives true.
C11_AbnormalIffIndicatorWord ==
    Extracted =>
      LET low == ToLowerCase(extText) IN
        /\ Details.abnormalitiesDetected <=> OccursAnyOf(low, IndicatorWords)
        /\ extText = FragNoAbnormality => Details.abnormalitiesDetected

\* the negated sentence of the example was extracted as abnormal
C11_Witness ==
    /\ Extracted
    /\ extText = FragNoAbnormality
    /\ Details.abnormalitiesDetected

\* a text without any indicator word was extracted as not abnormal
C11_WitnessNone ==
    /\ Extracted
    /\ extText = FragSevere \o FragChest
    /\ ~Details.abnormalitiesDetected

\* C12: the scan type is that of the first rule, in the order xray, ct, mri,
\* ultrasound, whose keyword occurs anywhere in the text, and other when none
\* does; an x-ray keyword wins over a ct keyword wherever the two stand.
C12_ScanTypeByRuleOrder ==
    Extracted =>
      LET low == ToLowerCase(extText) IN
        /\ Details.scanType =
              IF OccursAnyOf(low, XrayTerms) THEN "xray"
              ELSE IF OccursAnyOf(low, CtTerms) THEN "ct"
              ELSE IF OccursAnyOf(low, MriTerms) THEN "mri"
              ELSE IF OccursAnyOf(low, UltrasoundTerms) THEN "ultrasound"
              ELSE "other"
        /\ OccursAnyOf(low, XrayTerms) /\ OccursAnyOf(low, CtTerms) => Details.scanType = "xray"

\* the ct keyword stands before the x-ray keyword, and the type is xray
C12_Witness ==
    /\ Extracted
    /\ extText = FragCtScan \o FragXray
    /\ Details.scanType = "xray"

\* C13: the severity is the first tier, in the order critical, high, medium,
\* low, one of whose keywords occurs in the text, and normal when none does.
C13_SeverityByTierOrder ==
    Extracted =>
      LET low == ToLowerCase(extText) IN
        /\ Details.severity =
              IF OccursAnyOf(low, CriticalTerms) THEN "critical"
              ELSE IF OccursAnyOf(low, HighTerms) THEN "high"
              ELSE IF OccursAnyOf(low, MediumTerms) THEN "medium"
              ELSE IF OccursAnyOf(low, LowTerms) THEN "low"
              ELSE "normal"
        /\ OccursAnyOf(low, CriticalTerms) => Details.severity = "critical"
        /\ ~OccursAnyOf(low, CriticalTerms \cup HighTerms \cup MediumTerms \cup LowTerms)
              => Details.severity = "normal"

\* a low keyword stands before a high and a critical one: critical
C13_Witness ==
    /\ Extracted
    /\ extText = FragMild \o FragConcerning \o FragSevere
    /\ Details.severity = "critical"

\* a low keyword stands before a medium one: medium
C13_WitnessMedium ==
    /\ Extracted
    /\ extText = FragMild \o FragModerate
    /\ Details.severity = "medium"

BodyPartWords == {bodyParts[i].chars : i \in 1..Len(bodyParts)}

ScanTypeWords == XrayTerms \cup CtTerms \cup MriTerms \cup UltrasoundTerms

SeverityWords == CriticalTerms \cup HighTerms \cup MediumTerms \cup LowTerms

DefaultDetails ==
    [scanType |-> "other", bodyPart |-> "unknown", abnormalitiesDetected |-> FALSE,
     findings |-> <<>>, severity |-> "normal"]

\* C14: the empty text, and every text in which no scan type, body part,
\* indicator or severity keyword occurs, is extracted to the defaults: type
\* other, body part unknown, not abnormal, severity normal, no finding.
C14_KeywordFreeGivesDefaults ==
    Extracted =>
      LET low == ToLowerCase(extText) IN
        /\ extText = <<>> => Details = DefaultDetails
        /\ ~OccursAnyOf(low, ScanTypeWords \cup BodyPartWords \cup IndicatorWords
                                \cup SeverityWords)
              => Details = DefaultDetails

\* the empty text was extracted
C14_Witness ==
    /\ Extracted
    /\ extText = <<>>
    /\ Details = DefaultDetails

\* a text of words that are no keywords was extracted
C14_WitnessKeywordFree ==
    /\ Extracted
    /\ extText = FragNormal \o FragNormal
    /\ Details = DefaultDetails

\* the 1-based position of the first occurrence of w in the lower-cased text
OccursFrom(lowered, w, i) ==
    /\ lowered[i] = w[1]
    /\ \A k \in 2..Len(w) : lowered[i + k - 1] = w[k]

FirstPosition(lowered, w) ==
    CHOOSE i \in 1..(Len(lowered) - Len(w) + 1) :
        /\ OccursFrom(lowered, w, i)
        /\ \A j \in 1..(i - 1) : ~OccursFrom(lowered, w, j)

\* the positions of the window at which a period is followed by a space
SentenceEnds(window) ==
    {q \in 1..(Len(window) - 1) : window[q] = "." /\ window[q + 1] = " "}

ExpectedMainFinding ==
    LET low == ToLowerCase(extText)
        found == {i \in 1..Len(findingsIndicators) : Occurs(low, findingsIndicators[i])}
    IN  IF found = {}
        THEN SubSeq(extText, 1, Min(ExcerptLength, Len(extText))) \o Ellipsis
        ELSE LET term == findingsIndicators[CHOOSE i \in found : \A j \in found : i <= j]
                 from == FirstPosition(low, term)
                 window == SubSeq(extText, from, Min(Len(extText), from + ExcerptLength - 1))
                 ends == SentenceEnds(window)
             IN  IF ends = {}
                 THEN window
                 ELSE SubSeq(window, 1, CHOOSE q \in ends : \A r \in ends : q <= r)

\* C15: the description of the synthesized finding is the text from the first
\* occurrence of the first of finding, abnormality, observation, impression
\* that occurs, at most 300 characters, cut after the period of the first
\* ". " that lies inside these 300 characters; when none of the terms occurs
\* it is the first min(300, length) characters followed by "...".
C15_MainFindingExcerpt ==
    Extracted /\ Details.findings # <<>> =>
        /\ Details.findings[1].description = ExpectedMainFinding
        /\ Len(Details.findings[1].description) <= ExcerptLength + Len(Ellipsis)

\* impression stands first in the text, finding has priority: the excerpt
\* starts at "Findings" and ends with the period of "mass. "
C15_Witness ==
    /\ Extracted
    /\ extText = FragImpression \o FragFindings \o FragMass
    /\ Details.findings[1].description =
          <<"F", "i", "n", "d", "i", "n", "g", "s", ":", " ", "m", "a", "s", "s", ".">>

\* the period is the last character of the window and the space is outside
\* it: the whole window of 300 characters is returned
C15_WitnessWindow ==
    /\ Extracted
    /\ extText = FragFindings \o Filler(ExcerptLength - 15) \o FragMass
    /\ Len(Details.findings[1].description) = ExcerptLength
    /\ Details.findings[1].description[ExcerptLength] = "."

\* the ". " is inside the window: cut after the period
C15_WitnessCut ==
    /\ Extracted
    /\ extText = FragFindings \o Filler(ExcerptLength - 16) \o FragMass
    /\ Len(Details.findings[1].description) = ExcerptLength - 1

\* no term occurs in a text longer than the window: 300 characters and "..."
C15_WitnessNoTerm ==
    /\ Extracted
    /\ extText = FragConcerning \o Filler(ExcerptLength) \o FragMass
    /\ Len(Details.findings[1].description) = ExcerptLength + 3
    /\ SubSeq(Details.findings[1].description, ExcerptLength + 1, ExcerptLength + 3) = Ellipsis

(***************************************************************************)
(* The ScanProvider (ScanContext.tsx): analyzeScan, generateReport and the *)
(* two report texts.  A result id and a report id stand for the Date.now() *)
(* reading they are made of: the number of the result or report.  An       *)
(* optional field is <<>> when absent and <<value>> when present.          *)
(***************************************************************************)
ScanNotFound == "Scan not found"
ScanResultNotFound == "Scan result not found"
FailedToAnalyzeScan == "Failed to analyze scan"

NoClinicalDetails ==
    <<"N", "o", " ", "c", "l", "i", "n", "i", "c", "a", "l", " ", "d", "e", "t", "a", "i", "l",
      "s", " ", "a", "v", "a", "i", "l", "a", "b", "l", "e", ".">>
NoAbnormalitiesRecommendation ==
    <<"N", "o", " ", "a", "b", "n", "o", "r", "m", "a", "l", "i", "t", "i", "e", "s", " ", "d",
      "e", "t", "e", "c", "t", "e", "d", ".", " ", "R", "o", "u", "t", "i", "n", "e", " ", "f",
      "o", "l", "l", "o", "w", "-", "u", "p", " ", "a", "s", " ", "n", "e", "e", "d", "e", "d",
      ".">>
CriticalRecommendation ==
    <<"I", "m", "m", "e", "d", "i", "a", "t", "e", " ", "s", "p", "e", "c", "i", "a", "l", "i",
      "s", "t", " ", "c", "o", "n", "s", "u", "l", "t", "a", "t", "i", "o", "n", " ", "r", "e",
      "q", "u", "i", "r", "e", "d", ".", " ", "C", "o", "n", "s", "i", "d", "e", "r", " ", "e",
      "m", "e", "r", "g", "e", "n", "c", "y", " ", "i", "n", "t", "e", "r", "v", "e", "n", "t",
      "i", "o", "n", ".">>
HighRecommendation ==
    <<"U", "r", "g", "e", "n", "t", " ", "f", "o", "l", "l", "o", "w", "-", "u", "p", " ", "r",
      "e", "c", "o", "m", "m", "e", "n", "d", "e", "d", " ", "w", "i", "t", "h", "i", "n", " ",
      "1", "-", "2", " ", "d", "a", "y", "s", ".", " ", "S", "p", "e", "c", "i", "a", "l", "i",
      "s", "t", " ", "c", "o", "n", "s", "u", "l", "t", "a", "t", "i", "o", "n", " ", "a", "d",
      "v", "i", "s", "e", "d", ".">>
MediumRecommendation ==
    <<"F", "o", "l", "l", "o", "w", "-", "u", "p", " ", "r", "e", "c", "o", "m", "m", "e", "n",
      "d", "e", "d", " ", "w", "i", "t", "h", "i", "n", " ", "1", "-", "2", " ", "w", "e", "e",
      "k", "s", ".", " ", "C", "o", "n", "s", "i", "d", "e", "r", " ", "a", "d", "d", "i", "t",
      "i", "o", "n", "a", "l", " ", "i", "m", "a", "g", "i", "n", "g", " ", "i", "f", " ", "s",
      "y", "m", "p", "t", "o", "m", "s", " ", "p", "e", "r", "s", "i", "s", "t", ".">>
RoutineRecommendation ==
    <<"F", "o", "l", "l", "o", "w", "-", "u", "p", " ", "a", "t", " ", "n", "e", "x", "t", " ",
      "r", "o", "u", "t", "i", "n", "e", " ", "v", "i", "s", "i", "t", ".", " ", "M", "o", "n",
      "i", "t", "o", "r", " ", "f", "o", "r", " ", "a", "n", "y", " ", "c", "h", "a", "n", "g",
      "e", "s", " ", "i", "n", " ", "s", "y", "m", "p", "t", "o", "m", "s", ".">>

keyTerms == <<
       <<"c", "l", "i", "n", "i", "c", "a", "l">>,
       <<"d", "i", "a", "g", "n", "o", "s", "i", "s">>,
       <<"a", "s", "s", "e", "s", "s", "m", "e", "n", "t">>,
       <<"f", "i", "n", "d", "i", "n", "g", "s">>,
       <<"o", "b", "s", "e", "r", "v", "a", "t", "i", "o", "n">>>>

recommendationTerms == <<
       <<"r", "e", "c", "o", "m", "m", "e", "n", "d">>,
       <<"f", "o", "l", "l", "o", "w", "-", "u", "p">>,
       <<"f", "o", "l", "l", "o", "w", " ", "u", "p">>,
       <<"a", "d", "v", "i", "s", "e", "d">>,
       <<"s", "u", "g", "g", "e", "s", "t">>>>

ClinicalLead == 50
ClinicalSpan == 350
ClinicalFallbackLength == 300
Period == <<".">>

\* String.prototype.indexOf(pat, from): the first position >= from, or -1
IndexOfFrom(text, pat, from) ==
    IF \E i \in from..Len(text) : OccursAt(text, pat, i)
    THEN CHOOSE i \in from..Len(text) :
            /\ OccursAt(text, pat, i)
            /\ \A j \in from..(i - 1) : ~OccursAt(text, pat, j)
    ELSE -1

\* String.prototype.lastIndexOf(pat, from): the last position <= from, or -1
LastIndexOf(text, pat, from) ==
    IF \E i \in 0..from : OccursAt(text, pat, i)
    THEN CHOOSE i \in 0..from :
            /\ OccursAt(text, pat, i)
            /\ \A j \in (i + 1)..from : ~OccursAt(text, pat, j)
    ELSE -1

IsWhiteSpace(c) == c \in {" ", "\t", "\n", "\r"}

\* String.prototype.trim
Trim(text) ==
    LET kept == {i \in 1..Len(text) : ~IsWhiteSpace(text[i])}
    IN  IF kept = {}
        THEN <<>>
        ELSE SubSeq(text, CHOOSE i \in kept : \A j \in kept : i <= j,
                          CHOOSE i \in kept : \A j \in kept : j <= i)

generateClinicalDetailsUnguarded(analysis, result) ==
    LET lower == ToLowerCase(analysis)
        hits == {i \in 1..Len(keyTerms) : IndexOf(lower, keyTerms[i]) # -1}
    IN  IF hits # {}
        THEN LET index == IndexOf(lower, keyTerms[CHOOSE i \in hits : \A j \in hits : i <= j])
                 start == Max(0, index - ClinicalLead)
                 end == Min(Len(analysis), index + ClinicalSpan)
             IN  Slice(analysis, start, end)
        ELSE Slice(analysis, 0, ClinicalFallbackLength) \o Ellipsis

\* generateClinicalDetails(analysis, result); result is not read
generateClinicalDetails(analysis, result) ==
    IF analysis = <<>>
    THEN NoClinicalDetails
    ELSE LET lower == ToLowerCase(analysis)
             hits == {i \in 1..Len(keyTerms) : IndexOf(lower, keyTerms[i]) # -1}
         IN  IF hits # {}
             THEN LET index == IndexOf(lower, keyTerms[CHOOSE i \in hits : \A j \in hits : i <= j])
                      start == Max(0, index - ClinicalLead)
                      end == Min(Len(analysis), index + ClinicalSpan)
                  IN  Slice(analysis, start, end)
             ELSE Slice(analysis, 0, ClinicalFallbackLength) \o Ellipsis

SeverityTemplateHighFirst(severity) ==
    IF severity = "high" \/ severity = "critical" THEN HighRecommendation
    ELSE IF severity = "medium" THEN MediumRecommendation
    ELSE RoutineRecommendation

\* the default recommendations based on severity
SeverityTemplate(severity) ==
    IF severity = "critical" THEN CriticalRecommendation
    ELSE IF severity = "high" THEN HighRecommendation
    ELSE IF severity = "medium" THEN MediumRecommendation
    ELSE RoutineRecommendation

\* the sentence bounds the loop computes for a term found at index
SentenceStart(analysis, index) == LastIndexOf(analysis, Period, index) + 1
SentenceEnd(analysis, index) == IndexOfFrom(analysis, Period, index) + 1

generateRecommendationsUnconditional(analysis, result) ==
    LET lower == ToLowerCase(analysis)
        good == {i \in 1..Len(recommendationTerms) :
                    LET index == IndexOf(lower, recommendationTerms[i])
                    IN  /\ index # -1
                        /\ SentenceEnd(analysis, index) > SentenceStart(analysis, index)}
    IN  IF good # {}
        THEN LET index == IndexOf(lower,
                            recommendationTerms[CHOOSE i \in good : \A j \in good : i <= j])
             IN  Trim(Slice(analysis, SentenceStart(analysis, index),
                            SentenceEnd(analysis, index)))
        ELSE IF result.abnormalitiesDetected
        THEN SeverityTemplate(result.severity)
        ELSE NoAbnormalitiesRecommendation

generateRecommendations(analysis, result) ==
    IF result.abnormalitiesDetected
    THEN LET lower == ToLowerCase(analysis)
             good == {i \in 1..Len(recommendationTerms) :
                        LET index == IndexOf(lower, recommendationTerms[i])
                        IN  /\ index # -1
                            /\ SentenceEnd(analysis, index) > SentenceStart(analysis, index)}
         IN  IF good # {}
             THEN LET index == IndexOf(lower,
                                recommendationTerms[CHOOSE i \in good : \A j \in good : i <= j])
                  IN  Trim(Slice(analysis, SentenceStart(analysis, index),
                                 SentenceEnd(analysis, index)))
             ELSE SeverityTemplate(result.severity)
    ELSE NoAbnormalitiesRecommendation

ContextScan(id, status, type, bodyPart) ==
    [id |-> id, status |-> status, type |-> type, bodyPart |-> bodyPart]

\* setScans(prev => prev.map(scan => scan.id === scanId ? {...scan, status} : scan))
WithStatus(list, scanId, status) ==
    [i \in 1..Len(list) |->
        IF list[i].id = scanId THEN [list[i] EXCEPT !.status = status] ELSE list[i]]

HasScan(list, scanId) == \E i \in 1..Len(list) : list[i].id = scanId

TriagePriorityBySeverity(scanDetails) ==
    IF scanDetails.severity \in {"high", "critical"} THEN 7 ELSE 2

\* scanDetails.abnormalitiesDetected ? 7 : 2
TriagePriority(scanDetails) == IF scanDetails.abnormalitiesDetected THEN 7 ELSE 2

\* const newResult: ScanResult = {...}
NewResult(id, scanId, analysisResult, scanDetails) ==
    [id |-> id,
     scanId |-> scanId,
     abnormalitiesDetected |-> scanDetails.abnormalitiesDetected,
     confidenceScore |-> 95,
     findings |-> scanDetails.findings,
     severity |-> scanDetails.severity,
     triagePriority |-> TriagePriority(scanDetails),
     rawAnalysis |-> <<analysisResult>>,
     reportId |-> <<>>]

\* the caller of analyzeScan: ScanDetail, a handler that uploads, or the
\* compareScans call of that number
ScanDetailCaller == 0
UploadCaller == -1

\* a number no waiting analyzeScan call bears, to tell the calls apart
NextCallNo == CHOOSE n \in 1..(Cardinality(calls) + 1) : \A c \in calls : c.no # n

\* the status list holds for the scan, "none" without the scan
StatusOf(list, scanId) ==
    IF HasScan(list, scanId)
    THEN list[CHOOSE i \in 1..Len(list) : list[i].id = scanId].status
    ELSE "none"

\* analyzeScan(scanId) up to its first await, as called through a closure whose
\* scans are closureScans, list being the scans the state holds by then.  A scan
\* missing from the closure makes the call throw before it waits: the catch
\* puts the status back and the call is over.
AnalyzeScanBeginOn(list, scanId, closureScans, caller) ==
    IF HasScan(closureScans, scanId)
    THEN /\ ctxLoading' = TRUE
         /\ ctxError' = NoError
         /\ scans' = WithStatus(list, scanId, "processing")
         /\ calls' = calls \cup {[no |-> NextCallNo, scanId |-> scanId, caller |-> caller,
                                  closureResults |-> ctxScanResults,
                                  statusBefore |-> StatusOf(list, scanId)]}
         /\ UNCHANGED <<ctxScanResults, reports, timers>>
    ELSE /\ ctxLoading' = FALSE
         /\ ctxError' = ScanNotFound
         /\ scans' = WithStatus(WithStatus(list, scanId, "processing"), scanId, "uploaded")
         /\ UNCHANGED <<ctxScanResults, reports, calls, timers>>

AnalyzeScanBegin(scanId, closureScans, caller) ==
    AnalyzeScanBeginOn(scans, scanId, closureScans, caller)

\* analyzeScan from const scanDetails = extractScanDetails(analysisResult) on
AnalyzeScanStores(call, analysisResult, scanDetails) ==
    LET newResult == NewResult(Len(ctxScanResults) + 1, call.scanId, analysisResult,
                               scanDetails)
    IN  /\ scans' = [i \in 1..Len(scans) |->
                        IF scans[i].id = call.scanId
                        THEN ContextScan(scans[i].id, "analyzed", scanDetails.scanType,
                                         scanDetails.bodyPart)
                        ELSE scans[i]]
        /\ ctxScanResults' = Append(ctxScanResults, newResult)
        /\ timers' = timers \cup {[resultId |-> newResult.id,
                                   closureResults |-> call.closureResults]}
        /\ calls' = calls \ {call}
        /\ ctxLoading' = FALSE
        /\ UNCHANGED <<ctxError, reports>>

\* the rest of analyzeScan when both awaits succeed: analysisResult is the
\* text of the AI service
AnalyzeScanResolves(call, analysisResult) ==
    AnalyzeScanStores(call, analysisResult, extractScanDetails(analysisResult))

\* the rest of analyzeScan when an await throws: the catch and the finally
AnalyzeScanRejects(call) ==
    /\ ctxError' = FailedToAnalyzeScan
    /\ scans' = WithStatus(scans, call.scanId, "uploaded")
    /\ calls' = calls \ {call}
    /\ ctxLoading' = FALSE
    /\ UNCHANGED <<ctxScanResults, reports, timers>>

HasResult(list, resultId) == \E i \in 1..Len(list) : list[i].id = resultId

\* scanResults.find(r => r.id === resultId)
FindResult(list, resultId) ==
    list[CHOOSE i \in 1..Len(list) :
            /\ list[i].id = resultId
            /\ \A k \in 1..(i - 1) : list[k].id # resultId]

\* result.rawAnalysis || ''
RawAnalysisOf(result) == IF result.rawAnalysis = <<>> THEN <<>> ELSE result.rawAnalysis[1]

NewReport(id, result) ==
    [id |-> id,
     scanResultId |-> result.id,
     clinicalDetails |-> generateClinicalDetails(RawAnalysisOf(result), result),
     recommendations |-> generateRecommendations(RawAnalysisOf(result), result)]

\* a generateReport that rewrites the stored result as a whole
WithReportIdReprocessed(result, reportId) ==
    [result EXCEPT !.reportId = <<reportId>>, !.confidenceScore = 100]

\* { ...result, reportId: newReport.id }
WithReportId(result, reportId) == [result EXCEPT !.reportId = <<reportId>>]

\* generateReport(resultId, patientSummary) through a closure whose scanResults
\* are closureResults; the function has no await and runs to its end
GenerateReport(resultId, closureResults) ==
    IF HasResult(closureResults, resultId)
    THEN LET newReport == NewReport(Len(reports) + 1, FindResult(closureResults, resultId))
         IN  /\ reports' = Append(reports, newReport)
             /\ ctxScanResults' =
                    [i \in 1..Len(ctxScanResults) |->
                        IF ctxScanResults[i].id = resultId
                        THEN WithReportId(ctxScanResults[i], newReport.id)
                        ELSE ctxScanResults[i]]
             /\ ctxError' = NoError
             /\ ctxLoading' = FALSE
             /\ UNCHANGED <<scans, calls>>
    ELSE /\ ctxError' = ScanResultNotFound
         /\ ctxLoading' = FALSE
         /\ UNCHANGED <<scans, ctxScanResults, reports, calls>>

HasResultOfScan(list, scanId) == \E i \in 1..Len(list) : list[i].scanId = scanId

\* getResultByScanId: scanResults.find(r => r.scanId === scanId)
ResultOfScan(list, scanId) ==
    list[CHOOSE i \in 1..Len(list) :
            /\ list[i].scanId = scanId
            /\ \A k \in 1..(i - 1) : list[k].scanId # scanId]

HasReportOf(list, resultId) == \E i \in 1..Len(list) : list[i].scanResultId = resultId

\* ScanDetail: the Start Analysis button is rendered for a scan without result
\* and with status uploaded, and is disabled while the provider is loading
CanStartAnalysis(scanId) ==
    /\ \E i \in 1..Len(scans) : scans[i].id = scanId /\ scans[i].status = "uploaded"
    /\ ~HasResultOfScan(ctxScanResults, scanId)
    /\ ~ctxLoading

\* ScanDetail.handleAnalyze
HandleAnalyze(scanId) ==
    /\ CanStartAnalysis(scanId)
    /\ AnalyzeScanBegin(scanId, scans, ScanDetailCaller)

\* a Generate Report button rendered whenever the scan has a result
CanGenerateReportWithResult(scanId) == HasResultOfScan(ctxScanResults, scanId)

\* ScanDetail: the Generate Report button is rendered for a result whose
\* report is not there: report = result?.reportId ? getReportByResultId : undefined
CanGenerateReport(scanId) ==
    /\ HasResultOfScan(ctxScanResults, scanId)
    /\ LET result == ResultOfScan(ctxScanResults, scanId)
       IN  result.reportId = <<>> \/ ~HasReportOf(reports, result.id)

\* ScanDetail.handleGenerateReport
HandleGenerateReport(scanId) ==
    /\ CanGenerateReport(scanId)
    /\ GenerateReport(ResultOfScan(ctxScanResults, scanId).id, ctxScanResults)
    /\ UNCHANGED timers

\* setTimeout(() => autoGenerateReport(resultId, patientSummary), 100): the
\* generateReport it calls is the one analyzeScan was created with
AutoGenerateReport(timer) ==
    /\ GenerateReport(timer.resultId, timer.closureResults)
    /\ timers' = timers \ {timer}

(***************************************************************************)
(* One scan in the provider, analysed from ScanDetail and reported on: the *)
(* scan is new, or its result was read back from storage (loadPersisted-   *)
(* Data: localStorage or mockScanResults), where nothing ties the flags of *)
(* a result to its text.  The AI text is made of up to MaxFragments pieces.*)
(***************************************************************************)
ScanOne == "scan-1"
ScanZero == "scan-0"

ScanIdsOf(list) == {list[i].id : i \in 1..Len(list)}

FragMassSeen == <<"M", "a", "s", "s", " ", "s", "e", "e", "n", ".", " ">>
FragRecommend == <<"W", "e", " ", "r", "e", "c", "o", "m", "m", "e", "n", "d", " ", "b", "i", "o", "p", "s", "y", ".", " ">>
FragFollowUpAdvised == <<"F", "o", "l", "l", "o", "w", "-", "u", "p", " ", "a", "d", "v", "i", "s", "e", "d">>
FragSuggest == <<"W", "e", " ", "s", "u", "g", "g", "e", "s", "t", " ", "M", "R", "I", ".", " ">>

ReportFragments ==
    {FragMassSeen, FragRecommend, FragFollowUpAdvised, FragSuggest, FragFindings,
     FragSevere, FragModerate, FragConcerning}

\* a text whose key term stands further in than the lead of the clinical
\* excerpt and is followed by more than its span
ClinicalLongText == Filler(ClinicalLead + 10) \o FragFindings \o Filler(ClinicalSpan)

ReportTexts ==
    {Concat(pieces) : pieces \in SeqsUpTo(ReportFragments, MaxFragments)}
        \cup {ClinicalLongText}

PersistedRawAnalyses ==
    {<<>>} \cup {<<Concat(pieces)>> : pieces \in SeqsUpTo(ReportFragments, 1)}

PersistedScanResults ==
    {[id |-> 1, scanId |-> ScanOne, abnormalitiesDetected |-> ab, confidenceScore |-> 95,
      findings |-> <<>>, severity |-> sv, triagePriority |-> 4, rawAnalysis |-> ra,
      reportId |-> <<>>] :
        ab \in BOOLEAN, sv \in SeverityLevels, ra \in PersistedRawAnalyses}

\* the result of an older scan, as storage holds it
OlderScanResult ==
    [id |-> 1, scanId |-> ScanZero, abnormalitiesDetected |-> TRUE, confidenceScore |-> 92,
     findings |-> <<>>, severity |-> "medium", triagePriority |-> 7,
     rawAnalysis |-> <<FragMassSeen>>, reportId |-> <<>>]

OthersUnused == CmpUnused /\ UiInitial /\ ExtUnused

InitReport ==
    /\ OthersUnused
    /\ AppUnused
    /\ ImgUnused
    /\ \/ /\ scans = <<ContextScan(ScanOne, "uploaded", "other", "autodetect")>>
          /\ ctxScanResults = <<>>
       \/ /\ scans = <<ContextScan(ScanOne, "analyzed", "other", "autodetect")>>
          /\ \E r \in PersistedScanResults : ctxScanResults = <<r>>
       \/ /\ scans = <<ContextScan(ScanZero, "completed", "xray", "chest"),
                       ContextScan(ScanOne, "uploaded", "other", "autodetect")>>
          /\ ctxScanResults = <<OlderScanResult>>
    /\ reports = <<>>
    /\ ctxLoading = FALSE
    /\ ctxError = NoError
    /\ calls = {}
    /\ timers = {}

NextReport ==
    \/ \E scanId \in ScanIdsOf(scans) :
            HandleAnalyze(scanId) /\ UNCHANGED <<cmpVars, uiVars, extVars, imgVars, appVars>>
    \/ \E call \in calls, analysisResult \in ReportTexts :
            AnalyzeScanResolves(call, analysisResult) /\ UNCHANGED <<cmpVars, uiVars, extVars, imgVars, appVars>>
    \/ \E call \in calls : AnalyzeScanRejects(call) /\ UNCHANGED <<cmpVars, uiVars, extVars, imgVars, appVars>>
    \/ \E timer \in timers : AutoGenerateReport(timer) /\ UNCHANGED <<cmpVars, uiVars, extVars, imgVars, appVars>>
    \/ \E scanId \in ScanIdsOf(scans) :
            HandleGenerateReport(scanId) /\ UNCHANGED <<cmpVars, uiVars, extVars, imgVars, appVars>>

SpecReport == InitReport /\ [][NextReport]_vars

\* the result a report was written for
ResultOfReport(report) ==
    ctxScanResults[CHOOSE i \in 1..Len(ctxScanResults) :
                        ctxScanResults[i].id = report.scanResultId]

\* C16: every ScanResult that analyzeScan adds has triagePriority 7 when its
\* abnormalitiesDetected is true and 2 otherwise, whatever its severity; the
\* value lies in 1..10.
C16_TriagePriorityByAbnormality ==
    [][Len(ctxScanResults') = Len(ctxScanResults) + 1 =>
            LET newResult == ctxScanResults'[Len(ctxScanResults')]
            IN  /\ newResult.triagePriority = IF newResult.abnormalitiesDetected THEN 7 ELSE 2
                /\ newResult.triagePriority \in 1..10]_vars

\* analyzeScan has built a result of severity critical without abnormality:
\* priority 2
C16_Witness ==
    /\ Len(ctxScanResults) = 1
    /\ timers # {}
    /\ ctxScanResults[1].rawAnalysis = <<FragSevere>>
    /\ ~ctxScanResults[1].abnormalitiesDetected
    /\ ctxScanResults[1].severity = "critical"
    /\ ctxScanResults[1].triagePriority = 2

\* analyzeScan has built a result with an abnormality of severity normal:
\* priority 7
C16_WitnessAbnormal ==
    /\ Len(ctxScanResults) = 1
    /\ timers # {}
    /\ ctxScanResults[1].abnormalitiesDetected
    /\ ctxScanResults[1].severity = "normal"
    /\ ctxScanResults[1].triagePriority = 7

\* C17: the report of a result whose abnormalitiesDetected is false has the
\* recommendations "No abnormalities detected. Routine follow-up as needed.",
\* whatever the raw analysis says.
C17_NoAbnormalityRecommendation ==
    \A i \in 1..Len(reports) :
        ~ResultOfReport(reports[i]).abnormalitiesDetected
            => reports[i].recommendations = NoAbnormalitiesRecommendation

\* a report was written for a result without abnormality whose text
\* recommends, advises and suggests
C17_Witness ==
    /\ Len(reports) = 1
    /\ ~ResultOfReport(reports[1]).abnormalitiesDetected
    /\ ResultOfReport(reports[1]).rawAnalysis =
            <<FragRecommend \o FragSuggest \o FragFollowUpAdvised>>
    /\ reports[1].recommendations = NoAbnormalitiesRecommendation

\* the 1-based positions of the periods of a text
PeriodsIn(text, from, to) == {q \in from..to : text[q] = "."}

\* the sentence around position p: from behind the last period before p to
\* the first period at or after p, without the white space at its ends
SentenceAround(text, p) ==
    LET before == PeriodsIn(text, 1, p - 1)
        after == PeriodsIn(text, p, Len(text))
        first == IF before = {} THEN 1
                 ELSE (CHOOSE q \in before : \A r \in before : r <= q) + 1
        last == CHOOSE q \in after : \A r \in after : q <= r
    IN  Trim(SubSeq(text, first, last))

ExpectedRecommendations(text, severity) ==
    LET low == ToLowerCase(text)
        usable == {i \in 1..Len(recommendationTerms) :
                        /\ Occurs(low, recommendationTerms[i])
                        /\ PeriodsIn(text, FirstPosition(low, recommendationTerms[i]),
                                     Len(text)) # {}}
    IN  IF usable # {}
        THEN SentenceAround(text, FirstPosition(low,
                    recommendationTerms[CHOOSE i \in usable : \A j \in usable : i <= j]))
        ELSE CASE severity = "critical" -> CriticalRecommendation
               [] severity = "high" -> HighRecommendation
               [] severity = "medium" -> MediumRecommendation
               [] OTHER -> RoutineRecommendation

\* C18: the report of a result whose abnormalitiesDetected is true recommends
\* the sentence around the first of recommend, follow-up, follow up, advised,
\* suggest that is followed by a period, and, when no term is, the template
\* of the result's severity: critical, high, medium or the routine one.
C18_AbnormalRecommendation ==
    \A i \in 1..Len(reports) :
        LET result == ResultOfReport(reports[i])
        IN  result.abnormalitiesDetected =>
                /\ reports[i].recommendations =
                        ExpectedRecommendations(RawAnalysisOf(result), result.severity)
                /\ ~OccursAnyOf(ToLowerCase(RawAnalysisOf(result)),
                                {recommendationTerms[k] : k \in 1..Len(recommendationTerms)})
                        => reports[i].recommendations \in
                                {CriticalRecommendation, HighRecommendation,
                                 MediumRecommendation, RoutineRecommendation}

\* follow-up and advised are followed by no period, suggest is: the sentence
\* around suggest is recommended
C18_Witness ==
    /\ Len(reports) = 1
    /\ ResultOfReport(reports[1]).abnormalitiesDetected
    /\ ResultOfReport(reports[1]).rawAnalysis =
            <<FragMassSeen \o FragSuggest \o FragFollowUpAdvised>>
    /\ reports[1].recommendations = <<"W", "e", " ", "s", "u", "g", "g", "e", "s", "t", " ", "M", "R", "I", ".">>

\* no term is followed by a period: the template of severity critical
C18_WitnessTemplate ==
    /\ Len(reports) = 1
    /\ ResultOfReport(reports[1]).abnormalitiesDetected
    /\ ResultOfReport(reports[1]).rawAnalysis =
            <<FragMassSeen \o FragSevere \o FragFollowUpAdvised>>
    /\ reports[1].recommendations = CriticalRecommendation

\* C19: the report of a result whose rawAnalysis is missing or empty has the
\* clinicalDetails "No clinical details available."
C19_EmptyAnalysisClinicalDetails ==
    \A i \in 1..Len(reports) :
        LET result == ResultOfReport(reports[i])
        IN  (result.rawAnalysis = <<>> \/ result.rawAnalysis = <<<<>>>>)
                => reports[i].clinicalDetails = NoClinicalDetails

\* a report was written for a stored result without rawAnalysis
C19_Witness ==
    /\ Len(reports) = 1
    /\ ResultOfReport(reports[1]).rawAnalysis = <<>>
    /\ ResultOfReport(reports[1]).abnormalitiesDetected
    /\ reports[1].clinicalDetails = NoClinicalDetails

\* a report was written for a result built from an empty AI text
C19_WitnessEmptyText ==
    /\ Len(reports) = 1
    /\ ResultOfReport(reports[1]).rawAnalysis = <<<<>>>>
    /\ ResultOfReport(reports[1]).triagePriority = 2
    /\ reports[1].clinicalDetails = NoClinicalDetails

(***************************************************************************)
(* The application: the provider above the routes, the dashboard page with *)
(* ScanUploader and ScanDetail, and the compare page with one instance of  *)
(* BeforeAfterUpload, whose state is lost when the page is left.  A handler*)
(* runs from one await to the next without anything in between; a handler  *)
(* resumed by a settled promise runs before any click, timer or response,  *)
(* which is what Quiescent asks of those.  State set by a handler of an    *)
(* instance no longer mounted is dropped.                                  *)
(***************************************************************************)
MaxUploads == 3         \* uploadScan calls in one behaviour
MaxMounts == 1          \* visits of the compare page in one behaviour
MaxFailures == 1        \* analyses that fail in one behaviour

\* scan-${Date.now()}, one per uploadScan call
UploadedIds == <<"scan-1001", "scan-1002", "scan-1003", "scan-1004", "scan-1005">>

UploadFailed == "Failed to upload scan"

\* what the AI service answers
AppTexts == {FragMass}

\* storage as loadPersistedData first fills it: a scan that has its result and
\* its report
MockScan == ContextScan("scan-1", "completed", "xray", "chest")
MockResult ==
    [id |-> 1, scanId |-> "scan-1", abnormalitiesDetected |-> TRUE, confidenceScore |-> 92,
     findings |-> <<MakeFinding("Upper right lobe", "medium", 89, FragMass)>>, severity |-> "medium",
     triagePriority |-> 7, rawAnalysis |-> <<FragMassSeen>>, reportId |-> <<1>>]
MockReport ==
    [id |-> 1, scanResultId |-> 1, clinicalDetails |-> FragMassSeen,
     recommendations |-> FragRecommend]

bauVars == <<beforeScan, afterScan, loading, error, comparisonResult>>
uiIdle == <<scanResults, pc, capBefore, capAfter, analyzedBeforeScan, analyzedAfterScan>>

\* no compareScans call stands between two awaits with its promise settled
Quiescent == \A run \in comparing : run.pc \in {"awaitBefore", "awaitAfter"}

\* the BeforeAfterUpload instance the handler belongs to is still the one shown
Mounted(run) == page = "compare" /\ run.mount = mounts

\* the user goes to the other page
Navigate ==
    /\ Quiescent
    /\ IF page = "dashboard"
       THEN /\ mounts < MaxMounts
            /\ page' = "compare"
            /\ mounts' = mounts + 1
       ELSE /\ page' = "dashboard"
            /\ UNCHANGED mounts
    /\ beforeScan' = <<>>
    /\ afterScan' = <<>>
    /\ loading' = FALSE
    /\ error' = NoError
    /\ comparisonResult' = <<>>
    /\ UNCHANGED <<completed, compares, uiIdle, uploads, uploading, comparing,
                   failures, ctxVars, cmpVars, extVars, imgVars>>

\* uploadScan(file, metadata) up to its await, called by a handler whose
\* analyzeScan was created with the scans of now
UploadScanBegins(component, isBeforeScan) ==
    /\ uploads < MaxUploads
    /\ uploads' = uploads + 1
    /\ uploading' = uploading \cup
            {[id |-> UploadedIds[uploads + 1], component |-> component,
              isBeforeScan |-> isBeforeScan, mount |-> mounts, closureScans |-> scans]}
    /\ ctxLoading' = TRUE
    /\ ctxError' = NoError
    /\ UNCHANGED <<scans, ctxScanResults, reports, calls, timers, page, mounts, comparing,
                   failures>>

\* ScanUploader.handleUpload up to its first await; the button is disabled
\* while the provider is loading
HandleUpload ==
    /\ Quiescent
    /\ page = "dashboard"
    /\ ~ctxLoading
    /\ UploadScanBegins("ScanUploader", FALSE)
    /\ UNCHANGED <<bauVars, completed, compares, uiIdle, cmpVars, extVars, imgVars>>

\* BeforeAfterUpload.handleFileUpload up to its first await; the file input of
\* a slot is rendered while the slot is empty, loading or not
HandleFileUpload(isBeforeScan) ==
    /\ Quiescent
    /\ page = "compare"
    /\ IF isBeforeScan THEN beforeScan = <<>> ELSE afterScan = <<>>
    /\ UploadScanBegins("BeforeAfterUpload", isBeforeScan)
    /\ loading' = TRUE
    /\ error' = NoError
    /\ UNCHANGED <<beforeScan, afterScan, comparisonResult, completed, compares, uiIdle,
                   cmpVars, extVars, imgVars>>

\* uploadScan resolves and the handler goes on to analyzeScan(scan.id), which
\* it calls as it was when the handler was created: its scans are those of
\* before the upload, so that the call is over at once and returns null.
\* handleFileUpload then puts the scan into its slot, without a result.
UploadScanResolves(run) ==
    LET newScan == ContextScan(run.id, "uploaded", "other",
                               IF run.component = "ScanUploader"
                               THEN "autodetect" ELSE "unknown")
    IN  /\ Quiescent
        /\ AnalyzeScanBeginOn(Append(scans, newScan), run.id, run.closureScans,
                              UploadCaller)
        /\ uploading' = uploading \ {run}
        /\ IF run.component = "BeforeAfterUpload" /\ Mounted(run)
           THEN /\ IF run.isBeforeScan
                   THEN /\ beforeScan' = <<MakeScan(run.id, "uploaded", <<>>)>>
                        /\ UNCHANGED afterScan
                   ELSE /\ afterScan' = <<MakeScan(run.id, "uploaded", <<>>)>>
                        /\ UNCHANGED beforeScan
                /\ loading' = FALSE
                /\ UNCHANGED <<error, comparisonResult>>
           ELSE UNCHANGED bauVars
        /\ UNCHANGED <<completed, compares, uiIdle, page, mounts, uploads, comparing,
                       failures, cmpVars, extVars, imgVars>>

\* uploadScan throws: its catch and finally, then those of the handler
UploadScanRejects(run) ==
    /\ Quiescent
    /\ ctxError' = UploadFailed
    /\ ctxLoading' = FALSE
    /\ uploading' = uploading \ {run}
    /\ loading' = IF run.component = "BeforeAfterUpload" /\ Mounted(run)
                  THEN FALSE ELSE loading
    /\ UNCHANGED <<beforeScan, afterScan, error, comparisonResult, completed, compares,
                   uiIdle, scans, ctxScanResults, reports, calls, timers, page, mounts,
                   uploads, comparing, failures, cmpVars, extVars, imgVars>>

\* compareScans up to its first await, from the Compare button:
\* disabled={!beforeScan || !afterScan || loading}
CompareScansBegins ==
    /\ Quiescent
    /\ page = "compare"
    /\ beforeScan # <<>>
    /\ afterScan # <<>>
    /\ ~loading
    /\ compares < MaxCompares
    /\ compares' = compares + 1
    /\ loading' = TRUE
    /\ error' = NoError
    /\ comparing' = comparing \cup
            {[no |-> compares + 1, mount |-> mounts, pc |-> "ensureBefore",
              beforeScan |-> beforeScan[1], afterScan |-> afterScan[1],
              analyzedBeforeScan |-> <<>>, analyzedAfterScan |-> <<>>,
              closureScans |-> scans, closureResults |-> ctxScanResults]}
    /\ UNCHANGED <<beforeScan, afterScan, comparisonResult, completed, uiIdle, page,
                   mounts, uploads, uploading, ctxVars, failures, cmpVars, extVars, imgVars>>

\* the scan the compareScans call hands to ensureScanAnalyzed
ScanToEnsure(run) ==
    IF run.pc \in {"ensureBefore", "awaitBefore"} THEN run.beforeScan ELSE run.afterScan

\* the compareScans call after ensureScanAnalyzed has returned scan
Ensured(run, scan) ==
    IF run.pc \in {"ensureBefore", "awaitBefore"}
    THEN [run EXCEPT !.pc = "ensureAfter", !.analyzedBeforeScan = <<scan>>]
    ELSE [run EXCEPT !.pc = "compare", !.analyzedAfterScan = <<scan>>]

\* setBeforeScan(updatedScan) or setAfterScan(updatedScan) of ensureScanAnalyzed
SetSlot(run, updatedScan) ==
    IF ~Mounted(run)
    THEN UNCHANGED <<beforeScan, afterScan>>
    ELSE IF run.pc \in {"ensureBefore", "awaitBefore"}
    THEN beforeScan' = <<updatedScan>> /\ UNCHANGED afterScan
    ELSE afterScan' = <<updatedScan>> /\ UNCHANGED beforeScan

\* the result of the provider as a slot holds it
SlotResult(result) == MakeResult(TRUE, result.findings)

\* ensureScanAnalyzed(scan) returning without a call of analyzeScan
EnsureReturns(run) ==
    LET scan == ScanToEnsure(run)
        existing == ~HasFindings(scan) /\ HasResultOfScan(run.closureResults, scan.id)
        updatedScan == MakeScan(scan.id, "analyzed",
                                <<SlotResult(ResultOfScan(run.closureResults, scan.id))>>)
    IN  /\ run.pc \in {"ensureBefore", "ensureAfter"}
        /\ HasFindings(scan) \/ existing \/ scan.status # "uploaded"
        /\ IF existing
           THEN /\ SetSlot(run, updatedScan)
                /\ comparing' = (comparing \ {run}) \cup {Ensured(run, updatedScan)}
           ELSE /\ UNCHANGED <<beforeScan, afterScan>>
                /\ comparing' = (comparing \ {run}) \cup {Ensured(run, scan)}
        /\ UNCHANGED <<loading, error, comparisonResult, completed, compares, uiIdle,
                       page, mounts, uploads, uploading, ctxVars, failures, cmpVars, extVars, imgVars>>

\* ensureScanAnalyzed(scan) as far as its await analyzeScan(scan.id): neither
\* the status the provider holds for the scan nor the calls that wait are
\* looked at
EnsureAnalyzes(run) ==
    LET scan == ScanToEnsure(run)
    IN  /\ run.pc \in {"ensureBefore", "ensureAfter"}
        /\ ~HasFindings(scan)
        /\ ~HasResultOfScan(run.closureResults, scan.id)
        /\ scan.status = "uploaded"
        /\ AnalyzeScanBeginOn(scans, scan.id, run.closureScans, run.no)
        /\ IF HasScan(run.closureScans, scan.id)
           THEN /\ loading' = IF Mounted(run) THEN TRUE ELSE loading
                /\ comparing' = (comparing \ {run}) \cup
                        {[run EXCEPT !.pc = IF run.pc = "ensureBefore"
                                            THEN "awaitBefore" ELSE "awaitAfter"]}
           ELSE /\ loading' = IF Mounted(run) THEN FALSE ELSE loading
                /\ comparing' = (comparing \ {run}) \cup {Ensured(run, scan)}
        /\ UNCHANGED <<beforeScan, afterScan, error, comparisonResult, completed,
                       compares, uiIdle, page, mounts, uploads, uploading, failures, cmpVars,
                       extVars, imgVars>>

\* the compareScans call that waits for the analyzeScan call
WaitsFor(run, call) == run.no = call.caller /\ run.pc \in {"awaitBefore", "awaitAfter"}

\* an analyzeScan call of ScanDetail resolves: handleAnalyze does nothing more
DetailAnalysisResolves(call, analysisResult) ==
    /\ Quiescent
    /\ call.caller = ScanDetailCaller
    /\ AnalyzeScanResolves(call, analysisResult)
    /\ UNCHANGED <<bauVars, completed, compares, uiIdle, appVars, cmpVars, extVars, imgVars>>

DetailAnalysisRejects(call) ==
    /\ Quiescent
    /\ call.caller = ScanDetailCaller
    /\ failures < MaxFailures
    /\ failures' = failures + 1
    /\ AnalyzeScanRejects(call)
    /\ UNCHANGED <<bauVars, completed, compares, uiIdle, page, mounts, uploads,
                   uploading, comparing, cmpVars, extVars, imgVars>>

\* an analyzeScan call of ensureScanAnalyzed resolves: the slot gets the scan
\* with its result, and the finally clears loading
EnsureAnalysisResolves(run, call, analysisResult) ==
    LET scanDetails == extractScanDetails(analysisResult)
        result == NewResult(Len(ctxScanResults) + 1, call.scanId, analysisResult,
                            scanDetails)
        updatedScan == MakeScan(call.scanId, "analyzed", <<SlotResult(result)>>)
    IN  /\ Quiescent
        /\ WaitsFor(run, call)
        /\ AnalyzeScanStores(call, analysisResult, scanDetails)
        /\ SetSlot(run, updatedScan)
        /\ loading' = IF Mounted(run) THEN FALSE ELSE loading
        /\ comparing' = (comparing \ {run}) \cup {Ensured(run, updatedScan)}
        /\ UNCHANGED <<error, comparisonResult, completed, compares, uiIdle, page,
                       mounts, uploads, uploading, failures, cmpVars, extVars, imgVars>>

\* an analyzeScan call of ensureScanAnalyzed returns null
EnsureAnalysisRejects(run, call) ==
    /\ Quiescent
    /\ WaitsFor(run, call)
    /\ failures < MaxFailures
    /\ failures' = failures + 1
    /\ AnalyzeScanRejects(call)
    /\ loading' = IF Mounted(run) THEN FALSE ELSE loading
    /\ comparing' = (comparing \ {run}) \cup {Ensured(run, ScanToEnsure(run))}
    /\ UNCHANGED <<beforeScan, afterScan, error, comparisonResult, completed, compares,
                   uiIdle, page, mounts, uploads, uploading, cmpVars, extVars, imgVars>>

\* compareScans after both awaits, a result missing
CompareScansFails(run) ==
    /\ run.pc = "compare"
    /\ MissingResult(run.analyzedBeforeScan[1], run.analyzedAfterScan[1])
    /\ error' = IF Mounted(run) THEN FailedToAnalyze ELSE error
    /\ comparing' = comparing \ {run}
    /\ UNCHANGED <<beforeScan, afterScan, loading, comparisonResult, completed, compares,
                   uiIdle, page, mounts, uploads, uploading, ctxVars, failures, cmpVars, extVars, imgVars>>

\* compareScans after both awaits, both results there
CompareScansSucceeds(run) ==
    /\ run.pc = "compare"
    /\ ~MissingResult(run.analyzedBeforeScan[1], run.analyzedAfterScan[1])
    /\ completed' = completed + 1
    /\ comparing' = comparing \ {run}
    /\ IF Mounted(run)
       THEN /\ comparisonResult' =
                    <<CompareFindings(SafeFindings(run.analyzedBeforeScan[1]),
                                      SafeFindings(run.analyzedAfterScan[1]))>>
            /\ beforeScan' = <<Reviewed(run.analyzedBeforeScan[1])>>
            /\ afterScan' = <<Reviewed(run.analyzedAfterScan[1])>>
            /\ loading' = FALSE
            /\ UNCHANGED error
       ELSE UNCHANGED bauVars
    /\ UNCHANGED <<compares, uiIdle, page, mounts, uploads, uploading, ctxVars, failures, cmpVars,
                   extVars, imgVars>>

\* ScanDetail of any scan of the dashboard
DetailHandleAnalyze(scanId) ==
    /\ Quiescent
    /\ page = "dashboard"
    /\ HandleAnalyze(scanId)
    /\ UNCHANGED <<bauVars, completed, compares, uiIdle, appVars, cmpVars, extVars, imgVars>>

TimerFires(timer) ==
    /\ Quiescent
    /\ AutoGenerateReport(timer)
    /\ UNCHANGED <<bauVars, completed, compares, uiIdle, appVars, cmpVars, extVars, imgVars>>

InitApp ==
    /\ CmpUnused
    /\ ExtUnused
    /\ UiInitial
    /\ AppUnused
    /\ ImgUnused
    /\ scans = <<MockScan>>
    /\ ctxScanResults = <<MockResult>>
    /\ reports = <<MockReport>>
    /\ ctxLoading = FALSE
    /\ ctxError = NoError
    /\ calls = {}
    /\ timers = {}

NextApp ==
    \/ Navigate
    \/ HandleUpload
    \/ \E isBeforeScan \in BOOLEAN : HandleFileUpload(isBeforeScan)
    \/ \E run \in uploading : UploadScanResolves(run)
    \/ \E run \in uploading : UploadScanRejects(run)
    \/ CompareScansBegins
    \/ \E run \in comparing : EnsureReturns(run)
    \/ \E run \in comparing : EnsureAnalyzes(run)
    \/ \E call \in calls, analysisResult \in AppTexts :
            DetailAnalysisResolves(call, analysisResult)
    \/ \E call \in calls : DetailAnalysisRejects(call)
    \/ \E run \in comparing, call \in calls, analysisResult \in AppTexts :
            EnsureAnalysisResolves(run, call, analysisResult)
    \/ \E run \in comparing, call \in calls : EnsureAnalysisRejects(run, call)
    \/ \E run \in comparing : CompareScansFails(run)
    \/ \E run \in comparing : CompareScansSucceeds(run)
    \/ \E scanId \in ScanIdsOf(scans) : DetailHandleAnalyze(scanId)
    \/ \E timer \in timers : TimerFires(timer)

SpecApp == InitApp /\ [][NextApp]_vars

\* C20: at no time do two analyzeScan calls wait for the analysis of the same
\* scan, whichever way the handlers of the pages interleave
C20_OneAnalysisInFlightPerScan ==
    \A c1 \in calls, c2 \in calls : c1.scanId = c2.scanId => c1 = c2

(***************************************************************************)
(* Stored results and reports.                                             *)
(***************************************************************************)
\* the stored result but for its link to a report
WithoutReportId(result) == [result EXCEPT !.reportId = <<>>]

\* C21 as stated: no step changes any field of a result scanResults holds
C21_ResultNeverUpdated ==
    [][\A i \in 1..Len(ctxScanResults) :
            /\ i <= Len(ctxScanResults')
            /\ ctxScanResults'[i] = ctxScanResults[i]]_vars

\* C21: a stored result stays where it is and no step changes any of its
\* fields other than reportId, which generateReport sets
C21_ResultUpdatedOnlyInReportId ==
    [][\A i \in 1..Len(ctxScanResults) :
            /\ i <= Len(ctxScanResults')
            /\ WithoutReportId(ctxScanResults'[i]) = WithoutReportId(ctxScanResults[i])
            /\ ctxScanResults'[i].reportId # ctxScanResults[i].reportId
                    => Len(reports') = Len(reports) + 1]_vars

\* an older result, a newer one appended by analyzeScan, and a report written
\* for each
C21_Witness ==
    /\ Len(ctxScanResults) = 2
    /\ ctxScanResults[1].reportId # <<>>
    /\ ctxScanResults[2].reportId # <<>>
    /\ Len(reports) = 2

\* C22: whatever analyses, auto-report timers and Generate Report clicks have
\* run, no two reports are written for the same result
C22_OneReportPerResult ==
    \A i \in 1..Len(reports), j \in 1..Len(reports) :
        reports[i].scanResultId = reports[j].scanResultId => i = j

\* a result analyzeScan has appended, whose auto-report timer has run and for
\* which Generate Report has written the report
C22_Witness ==
    /\ timers = {}
    /\ \E i \in 1..Len(ctxScanResults) :
            /\ ctxScanResults[i].scanId = ScanOne
            /\ ctxScanResults[i].triagePriority # 4
            /\ ctxScanResults[i].reportId # <<>>
            /\ HasReportOf(reports, ctxScanResults[i].id)

\* C23: once the auto-report timer that a successful analyzeScan has set has
\* run, reports holds a Report for the result that call appended
C23_AutoReportAddsReport ==
    [][\A timer \in timers :
            timer \notin timers' => HasReportOf(reports', timer.resultId)]_vars

(***************************************************************************)
(* The handlers of the pages.                                              *)
(***************************************************************************)
\* C24: when uploadScan has stored the scan of handleUpload or handleFile-
\* Upload, the analyzeScan call that follows finds the scan and waits for the
\* AI service instead of failing with 'Scan not found'
C24_AnalysisAfterUploadFindsScan ==
    [][\A run \in uploading :
            (run \notin uploading' /\ HasScan(scans', run.id))
                => /\ \E call \in calls' : call.scanId = run.id
                   /\ ctxError' # ScanNotFound]_vars

\* C25: an analyzeScan call that ends without a result has recorded an error
\* and leaves the scan with the status it had when the call was made, never
\* with 'processing'
C25_FailedAnalysisRevertsStatus ==
    [][\A call \in calls :
            (call \notin calls' /\ Len(ctxScanResults') = Len(ctxScanResults))
                => /\ ctxError' # NoError
                   /\ StatusOf(scans', call.scanId) # "processing"
                   /\ StatusOf(scans', call.scanId) = call.statusBefore]_vars

\* C26: for every pair of findings sharing an area, the direction written in
\* the generateGeminiAnalysis text (improved, worsened, unchanged) is the
\* change of the changedIssues entry of that pair (improved, worsened,
\* stable).
DirectionAsChange(changeDirection) ==
    IF changeDirection = "unchanged" THEN "stable" ELSE changeDirection

C26_TextAgreesWithChangedIssues ==
    Compared =>
        \A i \in 1..Len(Result.geminiAnalysis), k \in 1..Len(Result.changedIssues) :
            (/\ Result.geminiAnalysis[i].before = Result.changedIssues[k].before
             /\ Result.geminiAnalysis[i].after = Result.changedIssues[k].after)
                => DirectionAsChange(Result.geminiAnalysis[i].changeDirection)
                       = Result.changedIssues[k].change

\* C27: no finding is lost by a comparison: every before finding is in
\* exactly one of resolvedIssues and (as before) changedIssues, and every
\* after finding is in newIssues or is the after of a changedIssues entry,
\* also when findings share an area or have an empty area.
IsResolved(finding) == InSeq(finding, Result.resolvedIssues)
IsChangedBefore(finding) ==
    \E k \in 1..Len(Result.changedIssues) : Result.changedIssues[k].before = finding
IsChangedAfter(finding) ==
    \E k \in 1..Len(Result.changedIssues) : Result.changedIssues[k].after = finding

C27_NoFindingLost ==
    Compared =>
        /\ \A i \in 1..Len(cmpBefore) :
             IsResolved(cmpBefore[i]) # IsChangedBefore(cmpBefore[i])
        /\ \A j \in 1..Len(cmpAfter) :
             InSeq(cmpAfter[j], Result.newIssues) \/ IsChangedAfter(cmpAfter[j])

\* C28: the loading flag of ScanContext is true in every state in which an
\* uploadScan, analyzeScan or generateReport call is in flight.
CallInFlight == uploading # {} \/ calls # {}

C28_LoadingWhileInFlight == CallInFlight => ctxLoading

(***************************************************************************)
(* The image store.  uploadScan reads its file (fetch, blob), then         *)
(* storeImage opens the database and puts the blob under the scan's id;    *)
(* when the put has succeeded uploadScan appends the scan to scans.  The   *)
(* effect on scans saves the metadata and calls cleanupUnusedImages with   *)
(* the scans of its render; the cleanup opens the database, reads all the  *)
(* keys and deletes those that are no id of the scans it was called with.  *)
(* The requests to open the database are served in the order they were     *)
(* made, and so are the transactions on the one object store; the effect   *)
(* is taken to run with the render that follows setScans.                  *)
(***************************************************************************)
PutRequest(key) == [kind |-> "put", key |-> key, activeScanIds |-> {}]

\* const activeScanIds = new Set(activeScans.map(scan => scan.id))
CleanupRequest(activeScans) ==
    [kind |-> "cleanup", key |-> "", activeScanIds |-> ScanIdsOf(activeScans)]

\* useEffect(..., [scans]): if (scans.length > 0) {storeScansMetadata(...);
\* cleanupUnusedImages(scans)}
ScansEffect(queue, newScans) ==
    IF Len(newScans) > 0 THEN Append(queue, CleanupRequest(newScans)) ELSE queue

\* keys.forEach(key => {if (!activeScanIds.has(key)) store.delete(key)})
KeysKept(keys, activeScanIds) == keys \cap activeScanIds

\* uploadScan up to the fetch of processAndStoreImage; handleFileUpload's
\* file inputs call it whether the provider is loading or not
UploadScanCalled ==
    /\ uploads < MaxUploads
    /\ uploads' = uploads + 1
    /\ fetching' = fetching \cup {UploadedIds[uploads + 1]}
    /\ ctxLoading' = TRUE
    /\ ctxError' = NoError
    /\ UNCHANGED <<scans, ctxScanResults, reports, calls, timers, images, dbQueue,
                   page, mounts, uploading, comparing, failures, cmpVars, uiVars, extVars>>

\* fetch and response.blob() are done: storeImage(scanId, blob) opens the
\* database
StoreImageCalled(scanId) ==
    /\ fetching' = fetching \ {scanId}
    /\ dbQueue' = Append(dbQueue, PutRequest(scanId))
    /\ UNCHANGED <<images, ctxVars, appVars, cmpVars, uiVars, extVars>>

\* the fetch fails: catch and finally of uploadScan
FetchRejects(scanId) ==
    /\ fetching' = fetching \ {scanId}
    /\ ctxError' = UploadFailed
    /\ ctxLoading' = FALSE
    /\ UNCHANGED <<scans, ctxScanResults, reports, calls, timers, images, dbQueue,
                   appVars, cmpVars, uiVars, extVars>>

\* the put of storeImage succeeds and uploadScan goes on: setScans appends
\* the scan, finally sets loading false, and the effect on scans runs
PutSucceeds ==
    /\ dbQueue # <<>>
    /\ Head(dbQueue).kind = "put"
    /\ LET scanId == Head(dbQueue).key
           newScans == Append(scans, ContextScan(scanId, "uploaded", "other", "unknown"))
       IN  /\ images' = images \cup {scanId}
           /\ scans' = newScans
           /\ dbQueue' = ScansEffect(Tail(dbQueue), newScans)
    /\ ctxLoading' = FALSE
    /\ UNCHANGED <<ctxScanResults, reports, ctxError, calls, timers, fetching,
                   appVars, cmpVars, uiVars, extVars>>

\* the getAllKeys request of cleanupUnusedImages succeeds
CleanupRuns ==
    /\ dbQueue # <<>>
    /\ Head(dbQueue).kind = "cleanup"
    /\ images' = KeysKept(images, Head(dbQueue).activeScanIds)
    /\ dbQueue' = Tail(dbQueue)
    /\ UNCHANGED <<fetching, ctxVars, appVars, cmpVars, uiVars, extVars>>

\* the provider after loadPersistedData on empty storage: the mock scan, its
\* image stored by initializeMockData, and the cleanup of the first effect
InitImages ==
    /\ CmpUnused
    /\ ExtUnused
    /\ UiInitial
    /\ AppUnused
    /\ scans = <<MockScan>>
    /\ ctxScanResults = <<MockResult>>
    /\ reports = <<MockReport>>
    /\ ctxLoading = FALSE
    /\ ctxError = NoError
    /\ calls = {}
    /\ timers = {}
    /\ images = ScanIdsOf(scans)
    /\ dbQueue = ScansEffect(<<>>, scans)
    /\ fetching = {}

NextImages ==
    \/ UploadScanCalled
    \/ \E scanId \in fetching : StoreImageCalled(scanId)
    \/ \E scanId \in fetching : FetchRejects(scanId)
    \/ PutSucceeds
    \/ CleanupRuns

SpecImages == InitImages /\ [][NextImages]_vars

\* C29: an image stored by uploadScan is never deleted by
\* cleanupUnusedImages: every scan in scans has its image in the image
\* store, for every interleaving of uploads with the cleanups that the
\* changes of scans start.
C29_ScansKeepTheirImages == \A i \in 1..Len(scans) : scans[i].id \in images

\* C30: every compareScans call ends with the loading flag of
\* BeforeAfterUpload false, whichever way it ends: a scan missing, an
\* analysis failed, the comparison made.
CompareScansEnds ==
    \/ pc = "idle" /\ compares' # compares /\ pc' = "idle"
    \/ pc # "idle" /\ pc' = "idle"

C30_CompareEndsNotLoading == [][CompareScansEnds => ~loading']_vars

\* a call has just ended on its failed-analysis return
C30_Witness == pc = "idle" /\ compares > 0 /\ error = FailedToAnalyze /\ ~loading

\* the same over the calls of the whole application, which may overlap
C30_EveryRunEndsNotLoading ==
    [][\A run \in comparing :
            ((\A other \in comparing' : other.no # run.no) /\ Mounted(run)) => ~loading']_vars

====
